---------------------------- MODULE Spec2Model ----------------------------
(***************************************************************************)
(* A model of the tachometer of rc_assemble (src/src/read_motor_status.py): *)
(* the MotorSpeedReader with its edge callback, its two worker threads and  *)
(* its calibration routine, and the RPMFilter of the read-out loop.         *)
(*                                                                          *)
(* Time.  time.perf_counter() is modelled by the integer clock `now`, which *)
(* counts ticks of 1/TicksPerSecond seconds.  Every duration of the source  *)
(* (stopped_timeout, min_interval, max_interval, the sleeps) is converted   *)
(* to ticks; where the conversion is not a whole number the comparison is   *)
(* done by cross-multiplication, so that no rounding enters.                *)
(*                                                                          *)
(* Numbers.  Python floats are modelled by exact rationals <<n, d>> with    *)
(* d > 0 in lowest terms (RPM values, calibration results, filter state).   *)
(* Floating-point rounding is not modelled.                                 *)
(***************************************************************************)
EXTENDS Integers, Sequences, FiniteSets, TLC

VARIABLES
    encoder_ppr,      \* self.encoder_ppr
    min_rpm,          \* self.min_rpm
    max_rpm,          \* self.max_rpm
    deadline,         \* the time at which the modelled clock stops
    spacing,          \* the distance in ticks at which the encoder's edges
                      \* come, 0 where they come at any distance
    now,              \* time.perf_counter(), in ticks
    pulse_intervals,  \* self.pulse_intervals, deque(maxlen=50), in ticks
    rpm_history,      \* self.rpm_history, deque(maxlen=100), rationals
    last_pulse_time,  \* self.last_pulse_time, in ticks (0: never)
    current_rpm,      \* self.current_rpm, a rational
    is_running,       \* self.is_running
    callback,         \* the callback GPIO has registered on self.pin
    calc_thread,      \* the thread running _calculate_rpm: [pc, sleep]
    monitor_thread,   \* the thread running _monitor_stopped: [pc, sleep]
    cal,              \* the frame of calibrate_encoder_ppr
    edges_in_window,  \* history: rising edges on the pin since cal.start_time
    stall_forced,     \* history: the monitor forced a stall and no pulse
                      \* has arrived since
    cal2,             \* the frame of a second, concurrent call of
                      \* calibrate_encoder_ppr
    caller,           \* the calls of start_reading and stop_reading:
                      \* [stops, outcome]
    rpm_filter,       \* the RPMFilter instance of the read-out loop
    estimate,         \* the estimator's arithmetic alone: [intervals, rpm]
    motor,            \* the MotorController and its two pins
    stats             \* what the last get_detailed_stats() returned

vars == <<encoder_ppr, min_rpm, max_rpm, deadline, spacing, now, pulse_intervals,
          rpm_history, last_pulse_time, current_rpm, is_running, callback,
          calc_thread, monitor_thread, cal, edges_in_window, stall_forced,
          cal2, caller, rpm_filter, estimate, motor, stats>>

\* What no action of the reader changes: its configuration and the deadline.
config_vars == <<encoder_ppr, min_rpm, max_rpm, deadline, spacing>>
\* The reader's state.
reader_vars == <<now, pulse_intervals, rpm_history, last_pulse_time,
                 current_rpm, is_running, callback, calc_thread,
                 monitor_thread, cal, edges_in_window, stall_forced, cal2,
                 caller>>
\* What no action of the reader touches.
other_vars == <<rpm_filter, estimate, motor, stats>>
\* The calls made on the reader besides the first calibration.
caller_vars == <<cal2, caller>>

---------------------------------------------------------------------------
(* Bounds of the model *)

\* Clock ticks per second: the resolution of the modelled clock.
TicksPerSecond == 2

\* The clock of a reader stops MaxTime ticks after its construction.
MaxTime == 6

\* The largest number of edges counted (and of edges on the pin) during one
\* calibration.
MaxPulseCount == 2

\* The number of calls of calibrate_encoder_ppr in one run.
MaxCalibrations == 1

\* The clock of a reader found running stops MaxLongTime ticks later.
MaxLongTime == 1

---------------------------------------------------------------------------
(* Rational arithmetic *)

Abs(x) == IF x < 0 THEN -x ELSE x

RECURSIVE Gcd(_, _)
Gcd(a, b) == IF b = 0 THEN a ELSE Gcd(b, a % b)

\* n/d in lowest terms with a positive denominator (d # 0).
Rat(n, d) ==
    LET g == Gcd(Abs(n), Abs(d))
        s == IF d < 0 THEN -1 ELSE 1
    IN  <<(s * n) \div g, (s * d) \div g>>

Zero == <<0, 1>>
RatOfInt(i) == <<i, 1>>
RatLe(a, b) == a[1] * b[2] <= b[1] * a[2]
RatLt(a, b) == a[1] * b[2] < b[1] * a[2]
RatAdd(a, b) == Rat(a[1] * b[2] + b[1] * a[2], a[2] * b[2])
RatSub(a, b) == Rat(a[1] * b[2] - b[1] * a[2], a[2] * b[2])
RatMul(a, b) == Rat(a[1] * b[1], a[2] * b[2])
RatAbs(a) == <<Abs(a[1]), a[2]>>

---------------------------------------------------------------------------
(* Sequences *)

Last(s) == s[Len(s)]

\* s[-n:] of Python
LastN(s, n) == IF Len(s) <= n THEN s ELSE SubSeq(s, Len(s) - n + 1, Len(s))

\* n copies of x
Rep(x, n) == [i \in 1..n |-> x]

\* sorted(s) for a sequence of integers
Sorted(s) == SortSeq(s, LAMBDA a, b : a < b)

\* An append that, on a full deque, overwrites the newest entry.
DequeAppendDropsNewest(q, x, maxlen) ==
    IF Len(q) >= maxlen THEN Append(SubSeq(q, 1, Len(q) - 1), x)
    ELSE Append(q, x)

\* collections.deque(maxlen=maxlen).append(x): the oldest entry is dropped
\* when the deque is full.
DequeAppend(q, x, maxlen) ==
    IF Len(q) >= maxlen THEN Append(Tail(q), x) ELSE Append(q, x)

---------------------------------------------------------------------------
(* MotorSpeedReader: the values __init__ derives from its arguments *)

\* A duration of t clock ticks, in seconds.
Seconds(t) == Rat(t, TicksPerSecond)

\* self.min_freq, self.max_freq (Hz)
min_freq == Rat(min_rpm * encoder_ppr, 60)
max_freq == Rat(max_rpm * encoder_ppr, 60)

\* self.min_interval = 1.0 / self.max_freq if self.max_freq > 0 else 0.0001
min_interval ==
    IF RatLt(Zero, max_freq) THEN <<max_freq[2], max_freq[1]>>
    ELSE <<1, 10000>>

\* self.max_interval = 1.0 / max(self.min_freq, 1) if self.min_freq > 0 else 1.0
max_interval ==
    IF RatLt(Zero, min_freq)
    THEN IF RatLt(min_freq, <<1, 1>>) THEN <<1, 1>>
         ELSE <<min_freq[2], min_freq[1]>>
    ELSE <<1, 1>>

\* self.low_speed_threshold = 100 (RPM)
low_speed_threshold == <<100, 1>>

\* self.stopped_timeout = 2.0 (seconds)
stopped_timeout == <<2, 1>>

\* deque(maxlen=50), deque(maxlen=100)
IntervalsMaxLen == 50
HistoryMaxLen == 100

---------------------------------------------------------------------------
(* The estimator's arithmetic (_calculate_rpm, lines 124-153) *)

\* np.percentile(s, p) of a sorted sequence s of integers, linear
\* interpolation: the value at the fractional index (Len(s)-1)*p/100.
Percentile(s, p) ==
    LET pos  == (Len(s) - 1) * p
        lo   == pos \div 100
        frac == pos % 100
    IN  IF frac = 0
        THEN RatOfInt(s[lo + 1])
        ELSE Rat(100 * s[lo + 1] + frac * (s[lo + 2] - s[lo + 1]), 100)

\* statistics.median(s): the middle value of the sorted data, the mean of the
\* two middle values for an even length.
Median(s) ==
    LET d == Sorted(s)
        n == Len(d)
    IN  IF n % 2 = 1
        THEN RatOfInt(d[(n \div 2) + 1])
        ELSE Rat(d[n \div 2] + d[(n \div 2) + 1], 2)

\* A window that is the whole buffer, however long it is.
RecentIntervalsWhole(intervals) == intervals

\* intervals[-10:] when 10 or more are buffered, else all of them
RecentIntervals(intervals) ==
    IF Len(intervals) >= 10 THEN LastN(intervals, 10) ELSE intervals

\* An interquartile filter that keeps every value.
IqrKeepsAll(recent) == recent

\* An interquartile filter that keeps the values strictly between the
\* quartiles only.
IqrBetweenQuartiles(recent) ==
    LET sorted_intervals == Sorted(recent)
        q1  == Percentile(sorted_intervals, 25)
        q3  == Percentile(sorted_intervals, 75)
        Keep(x) == RatLt(q1, RatOfInt(x)) /\ RatLt(RatOfInt(x), q3)
    IN  SelectSeq(recent, Keep)

\* The interquartile filter: values within [q1 - 1.5*iqr, q3 + 1.5*iqr], in
\* the order they have in the window.
IqrFiltered(recent) ==
    LET sorted_intervals == Sorted(recent)
        q1  == Percentile(sorted_intervals, 25)
        q3  == Percentile(sorted_intervals, 75)
        iqr == RatSub(q3, q1)
        lo  == RatSub(q1, RatMul(<<3, 2>>, iqr))
        hi  == RatAdd(q3, RatMul(<<3, 2>>, iqr))
        Keep(x) == RatLe(lo, RatOfInt(x)) /\ RatLe(RatOfInt(x), hi)
    IN  SelectSeq(recent, Keep)

\* The window the median is taken over: the filtered window when the window
\* holds 5 or more intervals and the filter keeps any, else the window.
FinalWindow(intervals) ==
    LET recent == RecentIntervals(intervals)
    IN  IF Len(recent) >= 5
        THEN IF IqrFiltered(recent) # <<>> THEN IqrFiltered(recent) ELSE recent
        ELSE recent

\* rpm = (frequency * 60) / ppr with frequency = 1.0 / median_interval, the
\* median being a rational number of units of 1/per_second seconds.
RpmOfInterval(median, ppr, per_second) ==
    Rat(60 * per_second * median[2], median[1] * ppr)

\* The same for a median that is a number of clock ticks.
RpmOfMedian(median_ticks, ppr) ==
    RpmOfInterval(median_ticks, ppr, TicksPerSecond)

\* Lines 125-153: the RPM computed from buffered intervals that are given in
\* units of 1/per_second seconds.
EstimatedRpm(intervals, ppr, per_second) ==
    RpmOfInterval(Median(FinalWindow(intervals)), ppr, per_second)

\* The RPM one estimator tick computes from the buffered intervals.
ComputedRpm(intervals, ppr) == EstimatedRpm(intervals, ppr, TicksPerSecond)

\* if self.min_rpm <= rpm <= self.max_rpm
InRange(rpm) == RatLe(RatOfInt(min_rpm), rpm) /\ RatLe(rpm, RatOfInt(max_rpm))


---------------------------------------------------------------------------
(* MotorSpeedReader: construction *)

\* The arguments the reader is constructed with: encoder_ppr and rpm_range.
Configs ==
    { [ppr |-> 1, rpm_range |-> <<0, 120>>],
      [ppr |-> 1, rpm_range |-> <<50, 120>>] }

\* perf_counter() when the reader is constructed (it is never 0).
StartTime == 1

\* A worker thread that has not been started.
NotStarted == [pc |-> "not_started", sleep |-> 0]

\* calibrate_encoder_ppr is not being executed and has not ended yet.
NoCalibration ==
    [pc |-> "idle", known_rpm |-> 0, duration |-> 0, sleep |-> 0,
     pulse_count |-> 0, start_time |-> 0,
     outcome |-> "none", value |-> Zero, calls |-> 0]

\* RPMFilter.__init__(alpha, deadband); raw_rpm is the argument of the last
\* call of filter and calls the number of calls made.
NewFilter(alpha, deadband) ==
    [alpha |-> alpha, deadband |-> deadband, filtered_rpm |-> Zero,
     last_raw_rpm |-> Zero, raw_rpm |-> Zero, calls |-> 0]

\* No call of start_reading or stop_reading has been made: stops counts the
\* calls of stop_reading, outcome is how the last call of either ended.
NoCalls == [stops |-> 0, outcome |-> "none"]

\* GPIO.HIGH and GPIO.LOW
HIGH == 1
LOW == 0

\* get_detailed_stats() has not been called.
NoStats == [outcome |-> "none"]

\* No call of gradual_speed_change is being executed or has ended: current,
\* target_speed and step_size are the local variables of the call.
NoGradual ==
    [pc |-> "idle", current |-> 0, target_speed |-> 0, step_size |-> 0,
     result |-> FALSE]

\* MotorController.__init__: the object's fields, the level of the direction
\* pin, the duty cycle of the PWM pin, the last call made: its name, its
\* argument and what it returned, and the call of gradual_speed_change.
NewMotor ==
    [is_initialized |-> FALSE, current_direction |-> HIGH,
     current_speed |-> 0, dir_pin |-> LOW, duty |-> 0,
     call |-> [op |-> "none", arg |-> 0, result |-> FALSE],
     gradual |-> NoGradual]

\* An RPMFilter that is not used by the specification at hand.
NoFilter == NewFilter(<<1, 1>>, 0)

\* MotorSpeedReader.__init__(pin, encoder_ppr = c.ppr, rpm_range = c.rpm_range)
Constructed(c) ==
    /\ encoder_ppr = c.ppr
    /\ min_rpm = c.rpm_range[1]
    /\ max_rpm = c.rpm_range[2]
    /\ now = StartTime
    /\ pulse_intervals = <<>>
    /\ rpm_history = <<>>
    /\ last_pulse_time = 0
    /\ current_rpm = Zero
    /\ is_running = FALSE
    /\ callback = "none"
    /\ calc_thread = NotStarted
    /\ monitor_thread = NotStarted
    /\ cal = NoCalibration
    /\ edges_in_window = 0
    /\ stall_forced = FALSE
    /\ cal2 = NoCalibration
    /\ caller = NoCalls

\* A reader constructed with any of the configurations.
ReaderInit ==
    /\ \E c \in Configs : Constructed(c)
    /\ deadline = StartTime + MaxTime
    /\ spacing = 0

\* The estimator's arithmetic is not exercised on its own.
NoEstimate ==
    [intervals |-> <<>>, window |-> <<>>, rpm |-> Zero, pc |-> "none"]

Init ==
    /\ ReaderInit
    /\ rpm_filter = NoFilter
    /\ estimate = NoEstimate
    /\ motor = NewMotor
    /\ stats = NoStats

---------------------------------------------------------------------------
(* The clock *)

\* What is left of a time.sleep() after one more tick.
SleepLess(frame) == [frame EXCEPT !.sleep = IF @ > 0 THEN @ - 1 ELSE 0]

\* One clock tick passes: perf_counter() advances and every sleep in progress
\* has one tick less to go.
Tick ==
    /\ now < deadline
    /\ now' = now + 1
    /\ calc_thread' = SleepLess(calc_thread)
    /\ monitor_thread' = SleepLess(monitor_thread)
    /\ cal' = SleepLess(cal)
    /\ cal2' = SleepLess(cal2)
    /\ UNCHANGED <<config_vars, pulse_intervals, rpm_history, last_pulse_time,
                   current_rpm, is_running, callback, edges_in_window,
                   stall_forced, caller, other_vars>>

---------------------------------------------------------------------------
(* The edge callbacks *)

\* An interval validity test that accepts only min_interval..max_interval.
IntervalAcceptedInRangeOnly(interval) ==
    /\ RatLe(min_interval, Seconds(interval))
    /\ RatLe(Seconds(interval), max_interval)

\* The interval validity test of _pulse_callback (lines 82-87), for an
\* interval of `interval` ticks.
IntervalAccepted(interval) ==
    \/ /\ RatLe(min_interval, Seconds(interval))
       /\ RatLe(Seconds(interval), max_interval)
    \/ /\ RatLt(max_interval, Seconds(interval))
       /\ RatLt(Seconds(interval), stopped_timeout)

\* self.pulse_intervals after _pulse_callback ran at time current_time.
IntervalsAfterPulse(current_time) ==
    IF last_pulse_time > 0 /\ IntervalAccepted(current_time - last_pulse_time)
    THEN DequeAppend(pulse_intervals, current_time - last_pulse_time,
                     IntervalsMaxLen)
    ELSE pulse_intervals

\* The calibration is between its reading of start_time and its reading of
\* the end time: an edge now falls into the measured window.
InCalibrationWindow == cal.pc \in {"removed", "counting", "restoring"}

\* _pulse_callback: a rising edge while the normal callback is registered.
PulseCallback ==
    /\ callback = "pulse"
    /\ InCalibrationWindow => edges_in_window < MaxPulseCount
    /\ pulse_intervals' = IntervalsAfterPulse(now)
    /\ last_pulse_time' = now
    /\ edges_in_window' =
          IF InCalibrationWindow THEN edges_in_window + 1 ELSE edges_in_window
    /\ stall_forced' = FALSE
    /\ UNCHANGED <<config_vars, now, rpm_history, current_rpm, is_running,
                   callback, calc_thread, monitor_thread, cal,
                   caller_vars, other_vars>>

\* calibration_callback: a rising edge while the counter is registered.  Once
\* calibrate_encoder_ppr has been left, the counter is a cell nobody reads:
\* its value is no longer kept.
CalibrationCallback ==
    /\ callback = "calibration"
    /\ edges_in_window < MaxPulseCount
    /\ cal' = IF cal.pc = "counting"
              THEN [cal EXCEPT !.pulse_count = @ + 1]
              ELSE cal
    /\ edges_in_window' =
          IF InCalibrationWindow THEN edges_in_window + 1 ELSE edges_in_window
    /\ UNCHANGED <<config_vars, now, pulse_intervals, rpm_history,
                   last_pulse_time, current_rpm, is_running, callback,
                   calc_thread, monitor_thread, stall_forced,
                   caller_vars, other_vars>>

\* A rising edge while no callback is registered on the pin, during a
\* calibration: nothing runs.
EdgeLost ==
    /\ callback = "none"
    /\ InCalibrationWindow
    /\ edges_in_window < MaxPulseCount
    /\ edges_in_window' = edges_in_window + 1
    /\ UNCHANGED <<config_vars, now, pulse_intervals, rpm_history,
                   last_pulse_time, current_rpm, is_running, callback,
                   calc_thread, monitor_thread, cal, stall_forced,
                   caller_vars, other_vars>>

---------------------------------------------------------------------------
(* start_reading, stop_reading *)

\* start_reading on a reader that has not been started and whose pin has
\* not been released: is_running is set; then 30000 / self.max_freq raises
\* when max_freq is 0 (line 96), else _pulse_callback is registered and both
\* threads are started.
StartReading ==
    /\ ~is_running
    /\ calc_thread.pc = "not_started"
    /\ caller.stops = 0
    /\ is_running' = TRUE
    /\ IF max_freq = Zero
       THEN /\ caller' = [caller EXCEPT !.outcome = "ZeroDivisionError"]
            /\ UNCHANGED <<callback, calc_thread, monitor_thread>>
       ELSE /\ caller' = [caller EXCEPT !.outcome = "returned"]
            /\ callback' = "pulse"
            /\ calc_thread' = [pc |-> "loop", sleep |-> 0]
            /\ monitor_thread' = [pc |-> "loop", sleep |-> 0]
    /\ UNCHANGED <<config_vars, now, pulse_intervals, rpm_history,
                   last_pulse_time, current_rpm, cal, edges_in_window,
                   stall_forced, cal2, other_vars>>

\* stop_reading on a running reader: clears is_running, removes the edge
\* detection and releases the pins (GPIO.cleanup()).  Nothing waits for the
\* two threads.
StopReading ==
    /\ is_running
    /\ cal.pc = "idle"
    /\ is_running' = FALSE
    /\ callback' = "none"
    /\ caller' = [stops |-> caller.stops + 1, outcome |-> "returned"]
    /\ UNCHANGED <<config_vars, now, pulse_intervals, rpm_history,
                   last_pulse_time, current_rpm, calc_thread, monitor_thread,
                   cal, edges_in_window, stall_forced, cal2, other_vars>>

\* At most MaxStops calls of stop_reading are made on one reader.
MaxStops == 2

\* How GPIO.remove_event_detect ends on a pin that GPIO.cleanup() has
\* released: stop_reading calls it unguarded, and what it does then is up
\* to the GPIO library (Jetson.GPIO raises, its numbering mode being unset).
RemoveAfterCleanup == {"returned", "RuntimeError"}

\* stop_reading on a reader that is not running: never started, or stopped
\* before.  The same three statements run; after an earlier stop_reading the
\* pins have been released already.
StopAgain ==
    /\ ~is_running
    /\ cal.pc = "idle"
    /\ caller.stops < MaxStops
    /\ callback' = "none"
    /\ \E outcome \in RemoveAfterCleanup :
          /\ caller.stops = 0 => outcome = "returned"
          /\ caller' = [stops |-> caller.stops + 1, outcome |-> outcome]
    /\ UNCHANGED <<config_vars, now, pulse_intervals, rpm_history,
                   last_pulse_time, current_rpm, is_running, calc_thread,
                   monitor_thread, cal, edges_in_window, stall_forced, cal2,
                   other_vars>>

---------------------------------------------------------------------------
(* The estimator thread: _calculate_rpm *)

\* time.sleep(0.1) and time.sleep(0.5) last at least this many ticks.
CalcSleepTicks == (TicksPerSecond + 9) \div 10
MonitorSleepTicks == (TicksPerSecond + 1) \div 2

\* An estimator whose loop does not test is_running.
CalcLoopForEver ==
    /\ calc_thread.pc = "loop"
    /\ calc_thread' = [pc |-> "sleep", sleep |-> CalcSleepTicks]
    /\ UNCHANGED <<config_vars, now, pulse_intervals, rpm_history,
                   last_pulse_time, current_rpm, is_running, callback,
                   monitor_thread, cal, edges_in_window, stall_forced,
                   caller_vars, other_vars>>

\* `while self.is_running:` followed by the start of time.sleep(0.1)
CalcLoop ==
    /\ calc_thread.pc = "loop"
    /\ calc_thread' =
          IF is_running
          THEN [pc |-> "sleep", sleep |-> CalcSleepTicks]
          ELSE [pc |-> "done", sleep |-> 0]
    /\ UNCHANGED <<config_vars, now, pulse_intervals, rpm_history,
                   last_pulse_time, current_rpm, is_running, callback,
                   monitor_thread, cal, edges_in_window, stall_forced,
                   caller_vars, other_vars>>

\* CalcAccepts without the range test of line 156.
CalcAcceptsAnyRpm == Len(pulse_intervals) >= 3

\* CalcAccepts with an RPM computed from a single interval already.
CalcAcceptsFromOne ==
    /\ Len(pulse_intervals) >= 1
    /\ InRange(ComputedRpm(pulse_intervals, encoder_ppr))

\* The estimator has 3 or more intervals and its RPM is within the range.
CalcAccepts ==
    /\ Len(pulse_intervals) >= 3
    /\ InRange(ComputedRpm(pulse_intervals, encoder_ppr))

\* The estimator finds the buffer empty and the last pulse too long ago.
CalcSeesStall ==
    /\ Len(pulse_intervals) = 0
    /\ RatLt(stopped_timeout, Seconds(now - last_pulse_time))

\* self.current_rpm after the body of one estimator tick (lines 123-167)
RpmAfterCalc ==
    IF CalcAccepts THEN ComputedRpm(pulse_intervals, encoder_ppr)
    ELSE IF CalcSeesStall THEN Zero
    ELSE current_rpm

\* A history that takes every RPM computed, within the range or not.
HistoryAppendsAnyRpm ==
    IF CalcAcceptsAnyRpm
    THEN DequeAppend(rpm_history, ComputedRpm(pulse_intervals, encoder_ppr),
                     HistoryMaxLen)
    ELSE rpm_history

\* self.rpm_history after the body of one estimator tick
HistoryAfterCalc ==
    IF CalcAccepts
    THEN DequeAppend(rpm_history, ComputedRpm(pulse_intervals, encoder_ppr),
                     HistoryMaxLen)
    ELSE rpm_history

\* One estimator tick: the sleep is over and the body runs under the lock.
CalculateRpm ==
    /\ calc_thread.pc = "sleep"
    /\ calc_thread.sleep = 0
    /\ current_rpm' = RpmAfterCalc
    /\ rpm_history' = HistoryAfterCalc
    /\ calc_thread' = [pc |-> "loop", sleep |-> 0]
    /\ UNCHANGED <<config_vars, now, pulse_intervals, last_pulse_time,
                   is_running, callback, monitor_thread, cal,
                   edges_in_window, stall_forced,
                   caller_vars, other_vars>>

---------------------------------------------------------------------------
(* The stall monitor thread: _monitor_stopped *)

\* `while self.is_running:` followed by the start of time.sleep(0.5)
MonitorLoop ==
    /\ monitor_thread.pc = "loop"
    /\ monitor_thread' =
          IF is_running
          THEN [pc |-> "sleep", sleep |-> MonitorSleepTicks]
          ELSE [pc |-> "done", sleep |-> 0]
    /\ UNCHANGED <<config_vars, now, pulse_intervals, rpm_history,
                   last_pulse_time, current_rpm, is_running, callback,
                   calc_thread, cal, edges_in_window, stall_forced,
                   caller_vars, other_vars>>

\* The test of lines 175-179, made without the lock.
MonitorSeesStall ==
    /\ last_pulse_time > 0
    /\ RatLt(stopped_timeout, Seconds(now - last_pulse_time))

\* The sleep is over; the monitor reads the clock and last_pulse_time and
\* either goes on to take the lock or goes back to the loop test.
MonitorCheck ==
    /\ monitor_thread.pc = "sleep"
    /\ monitor_thread.sleep = 0
    /\ monitor_thread' =
          [pc |-> IF MonitorSeesStall THEN "locking" ELSE "loop", sleep |-> 0]
    /\ UNCHANGED <<config_vars, now, pulse_intervals, rpm_history,
                   last_pulse_time, current_rpm, is_running, callback,
                   calc_thread, cal, edges_in_window, stall_forced,
                   caller_vars, other_vars>>

\* A monitor that forces current_rpm to 0 and leaves the buffer as it is.
MonitorClearKeepsIntervals ==
    /\ monitor_thread.pc = "locking"
    /\ current_rpm' = Zero
    /\ monitor_thread' = [pc |-> "loop", sleep |-> 0]
    /\ stall_forced' = (stall_forced \/ MonitorSeesStall)
    /\ UNCHANGED <<config_vars, now, pulse_intervals, rpm_history,
                   last_pulse_time, is_running, callback, calc_thread, cal,
                   edges_in_window, caller_vars, other_vars>>

\* A monitor that clears the RPM history as well.
MonitorClearForgetsHistory ==
    /\ monitor_thread.pc = "locking"
    /\ current_rpm' = Zero
    /\ pulse_intervals' = <<>>
    /\ rpm_history' = <<>>
    /\ monitor_thread' = [pc |-> "loop", sleep |-> 0]
    /\ stall_forced' = (stall_forced \/ MonitorSeesStall)
    /\ UNCHANGED <<config_vars, now, last_pulse_time,
                   is_running, callback, calc_thread, cal, edges_in_window,
                   caller_vars, other_vars>>

\* Lines 180-182: under the lock, current_rpm is forced to 0 and the
\* interval buffer is cleared.
MonitorClear ==
    /\ monitor_thread.pc = "locking"
    /\ current_rpm' = Zero
    /\ pulse_intervals' = <<>>
    /\ monitor_thread' = [pc |-> "loop", sleep |-> 0]
    /\ stall_forced' = (stall_forced \/ MonitorSeesStall)
    /\ UNCHANGED <<config_vars, now, rpm_history, last_pulse_time,
                   is_running, callback, calc_thread, cal, edges_in_window,
                   caller_vars, other_vars>>

---------------------------------------------------------------------------
(* get_rpm, get_detailed_stats *)

\* get_rpm()
get_rpm == current_rpm

\* A status that tests for "High Speed" before it tests for "Low Speed".
MotorStatusHighFirst ==
    IF current_rpm = Zero THEN "Stopped"
    ELSE IF RatLt(RatMul(RatOfInt(max_rpm), <<9, 10>>), current_rpm)
         THEN "High Speed"
    ELSE IF RatLt(current_rpm, low_speed_threshold) THEN "Low Speed"
    ELSE "Normal"

\* _get_motor_status()
MotorStatus ==
    IF current_rpm = Zero THEN "Stopped"
    ELSE IF RatLt(current_rpm, low_speed_threshold) THEN "Low Speed"
    ELSE IF RatLt(RatMul(RatOfInt(max_rpm), <<9, 10>>), current_rpm)
         THEN "High Speed"
    ELSE "Normal"

\* get_detailed_stats()['status']
StatsStatus ==
    IF Len(rpm_history) < 3
    THEN IF RatLt(Zero, current_rpm) THEN "Initializing" ELSE "Stopped"
    ELSE MotorStatus

\* statistics.mean, statistics.median and statistics.stdev raise a
\* StatisticsError on too few values: fewer than 1, 1 and 2.
TooFewFor(values, least) == Len(values) < least

\* values[lo] + ... + values[hi], added up by halves
RECURSIVE SumRange(_, _, _)
SumRange(values, lo, hi) ==
    IF lo > hi THEN Zero
    ELSE IF lo = hi THEN values[lo]
    ELSE LET mid == (lo + hi) \div 2
             left == SumRange(values, lo, mid)
             right == SumRange(values, mid + 1, hi)
         IN  RatAdd(left, right)

SumOf(values) == SumRange(values, 1, Len(values))

SumOfSquares(values) ==
    SumRange([i \in 1..Len(values) |-> RatMul(values[i], values[i])],
             1, Len(values))

\* a / b for b > 0
RatDiv(a, b) == Rat(a[1] * b[2], a[2] * b[1])

\* statistics.mean(values)
Mean(values) == RatDiv(SumOf(values), RatOfInt(Len(values)))

\* statistics.median(values)
MedianRpm(values) ==
    LET d == SortSeq(values, LAMBDA a, b : RatLt(a, b))
        n == Len(d)
    IN  IF n % 2 = 1
        THEN d[(n \div 2) + 1]
        ELSE RatDiv(RatAdd(d[n \div 2], d[(n \div 2) + 1]), RatOfInt(2))

\* statistics.variance(values), the square of statistics.stdev(values):
\* the sum of the squared deviations from the mean over n - 1, which is
\* (n * sum of squares - square of the sum) / (n * (n - 1)).
Variance(values) ==
    LET n == Len(values)
        total == SumOf(values)
    IN  RatDiv(RatSub(RatMul(RatOfInt(n), SumOfSquares(values)),
                      RatMul(total, total)),
               RatOfInt(n * (n - 1)))

\* A square root is kept as the number it is the root of.
\* statistics.stdev(values) if there is more than one value, else 0
StdRpm(values) ==
    [root_of |-> IF Len(values) > 1 THEN Variance(values) ELSE Zero]

\* min(values)
MinRpm(values) ==
    CHOOSE x \in {values[i] : i \in 1..Len(values)} :
        \A i \in 1..Len(values) : RatLe(x, values[i])

\* max(values)
MaxRpm(values) ==
    CHOOSE x \in {values[i] : i \in 1..Len(values)} :
        \A i \in 1..Len(values) : RatLe(values[i], x)

\* _calculate_stability(rpm_values).  With cv = 100 * stdev / mean the value
\* min(100, max(0, 100 - cv)) is 100 - 100 * sqrt(min(1, variance / mean^2)):
\* it is kept as the number under that root, and the 0.0 of the two early
\* returns as the root of 1.
Stability(values) ==
    IF Len(values) < 5 THEN [hundred_less_hundred_roots_of |-> RatOfInt(1)]
    ELSE LET mean == Mean(values)
             ratio == RatDiv(Variance(values), RatMul(mean, mean))
         IN  IF RatLt(Zero, mean)
             THEN [hundred_less_hundred_roots_of |->
                      IF RatLt(RatOfInt(1), ratio) THEN RatOfInt(1) ELSE ratio]
             ELSE [hundred_less_hundred_roots_of |-> RatOfInt(1)]

\* Every reading of the history, however long it is.
RecentRpmsWhole(history) == history

\* list(self.rpm_history)[-20:]
RecentRpms(history) ==
    IF Len(history) > 20
    THEN SubSeq(history, Len(history) - 19, Len(history))
    ELSE history

\* The dictionary get_detailed_stats() returns.
DetailedStats ==
    IF Len(rpm_history) < 3
    THEN [current_rpm |-> current_rpm,
          samples     |-> Len(rpm_history),
          status      |-> StatsStatus]
    ELSE LET recent_rpms == RecentRpms(rpm_history)
         IN  [current_rpm       |-> current_rpm,
              avg_rpm           |-> Mean(recent_rpms),
              median_rpm        |-> MedianRpm(recent_rpms),
              std_rpm           |-> StdRpm(recent_rpms),
              min_rpm           |-> MinRpm(recent_rpms),
              max_rpm           |-> MaxRpm(recent_rpms),
              samples           |-> Len(recent_rpms),
              pulse_frequency   |->
                  RatDiv(RatMul(current_rpm, RatOfInt(encoder_ppr)),
                         RatOfInt(60)),
              stability_percent |-> Stability(recent_rpms),
              status            |-> StatsStatus]

\* get_detailed_stats(), under the lock: the dictionary, or the
\* StatisticsError of a statistics function called on too few values.
GetDetailedStats ==
    /\ stats' =
          IF /\ Len(rpm_history) >= 3
             /\ \/ TooFewFor(RecentRpms(rpm_history), 1)
                \/ /\ Len(RecentRpms(rpm_history)) >= 5
                   /\ TooFewFor(RecentRpms(rpm_history), 2)
          THEN [outcome |-> "StatisticsError"]
          ELSE [outcome |-> "returned", value |-> DetailedStats]
    /\ UNCHANGED <<config_vars, reader_vars, rpm_filter, estimate, motor>>

\* get_rpm(), with the value it returns written down.
GetRpm ==
    /\ stats' = [outcome |-> "rpm", value |-> get_rpm]
    /\ UNCHANGED <<config_vars, reader_vars, rpm_filter, estimate, motor>>

---------------------------------------------------------------------------
(* calibrate_encoder_ppr.  The caller's thread is also the one that calls   *)
(* start_reading and stop_reading, so these do not run during a             *)
(* calibration.                                                             *)

\* The reference speeds calibrate_encoder_ppr is called with.
KnownRpms == {-60, 0, 60}

\* The longest duration (in ticks) calibrate_encoder_ppr is called with.
MaxDuration == 1

\* Lines 244-252: pulse_count = 0, start_time is read, and the edge
\* detection is removed from the pin.
CalibrateBegin(known, duration) ==
    /\ is_running
    /\ caller.outcome = "returned"
    /\ cal.pc = "idle"
    /\ cal.calls < MaxCalibrations
    /\ cal' = [pc |-> "removed", known_rpm |-> known, duration |-> duration,
               sleep |-> 0, pulse_count |-> 0, start_time |-> now,
               outcome |-> "none", value |-> Zero,
               calls |-> cal.calls + 1]
    /\ callback' = "none"
    /\ edges_in_window' = 0
    /\ UNCHANGED <<config_vars, now, pulse_intervals, rpm_history,
                   last_pulse_time, current_rpm, is_running, calc_thread,
                   monitor_thread, stall_forced, caller_vars, other_vars>>

\* Lines 253-256: calibration_callback is registered and the sleep starts.
\* (What add_event_detect does on a pin that has an edge detection is not
\* modelled: a behaviour in which a concurrent call has registered one in
\* between is not followed further.)
CalibrateCount ==
    /\ cal.pc = "removed"
    /\ callback = "none"
    /\ callback' = "calibration"
    /\ cal' = [cal EXCEPT !.pc = "counting", !.sleep = cal.duration]
    /\ UNCHANGED <<config_vars, now, pulse_intervals, rpm_history,
                   last_pulse_time, current_rpm, is_running, calc_thread,
                   monitor_thread, edges_in_window, stall_forced,
                   caller_vars, other_vars>>

\* Lines 256-259: the sleep is over and the edge detection is removed.
CalibrateEndWait ==
    /\ cal.pc = "counting"
    /\ cal.sleep = 0
    /\ callback' = "none"
    /\ cal' = [cal EXCEPT !.pc = "restoring"]
    /\ UNCHANGED <<config_vars, now, pulse_intervals, rpm_history,
                   last_pulse_time, current_rpm, is_running, calc_thread,
                   monitor_thread, edges_in_window, stall_forced,
                   caller_vars, other_vars>>

\* How calibrate_encoder_ppr ended, and the value it returned; its local
\* variables are gone.
Ended(outcome, value) ==
    [NoCalibration EXCEPT !.outcome = outcome, !.value = value,
                          !.calls = cal.calls]

\* time.sleep(duration) is interrupted (KeyboardInterrupt): the exception
\* leaves calibrate_encoder_ppr, which has no handler and no finally.
CalibrateInterrupt ==
    /\ cal.pc = "counting"
    /\ cal' = Ended("KeyboardInterrupt", Zero)
    /\ edges_in_window' = 0
    /\ UNCHANGED <<config_vars, now, pulse_intervals, rpm_history,
                   last_pulse_time, current_rpm, is_running, callback,
                   calc_thread, monitor_thread, stall_forced,
                   caller_vars, other_vars>>

\* calculated_ppr = (pulse_count * 60) / (known_rpm * actual_time), with
\* actual_time in ticks; the division raises when the divisor is 0.
CalculatedPpr(count, known, actual_ticks) ==
    IF known * actual_ticks = 0
    THEN [outcome |-> "ZeroDivisionError", value |-> Zero]
    ELSE [outcome |-> "returned",
          value |-> Rat(count * 60 * TicksPerSecond, known * actual_ticks)]

\* Lines 260-272: _pulse_callback is registered again, the end time is read
\* and the result is computed and returned.
CalibrateFinish ==
    /\ cal.pc = "restoring"
    /\ callback = "none"
    /\ callback' = "pulse"
    /\ LET r == CalculatedPpr(cal.pulse_count, cal.known_rpm,
                              now - cal.start_time)
       IN  cal' = Ended(r.outcome, r.value)
    /\ edges_in_window' = 0
    /\ UNCHANGED <<config_vars, now, pulse_intervals, rpm_history,
                   last_pulse_time, current_rpm, is_running, calc_thread,
                   monitor_thread, stall_forced, caller_vars, other_vars>>

---------------------------------------------------------------------------
(* A second call of calibrate_encoder_ppr, made by another thread while the *)
(* first call is in progress.  The function has no guard: the second call   *)
(* executes the same statements, with a pulse_count and a callback of its   *)
(* own.                                                                     *)

\* Lines 244-252 of the second call.
Calibrate2Begin(known, duration) ==
    /\ is_running
    /\ cal.pc # "idle"
    /\ cal2.pc = "idle"
    /\ cal2.calls < MaxCalibrations
    /\ cal2' = [pc |-> "removed", known_rpm |-> known,
                duration |-> duration, sleep |-> 0, pulse_count |-> 0,
                start_time |-> now, outcome |-> "none", value |-> Zero,
                calls |-> cal2.calls + 1]
    /\ callback' = "none"
    /\ UNCHANGED <<config_vars, now, pulse_intervals, rpm_history,
                   last_pulse_time, current_rpm, is_running, calc_thread,
                   monitor_thread, cal, edges_in_window, stall_forced,
                   caller, other_vars>>

\* Lines 253-256 of the second call.
Calibrate2Count ==
    /\ cal2.pc = "removed"
    /\ callback = "none"
    /\ callback' = "calibration2"
    /\ cal2' = [cal2 EXCEPT !.pc = "counting", !.sleep = cal2.duration]
    /\ UNCHANGED <<config_vars, now, pulse_intervals, rpm_history,
                   last_pulse_time, current_rpm, is_running, calc_thread,
                   monitor_thread, cal, edges_in_window, stall_forced,
                   caller, other_vars>>

\* calibration_callback of the second call: a rising edge while it is
\* registered.
Calibration2Callback ==
    /\ callback = "calibration2"
    /\ cal2.pc = "counting"
    /\ cal2.pulse_count < MaxPulseCount
    /\ edges_in_window < MaxPulseCount
    /\ cal2' = [cal2 EXCEPT !.pulse_count = @ + 1]
    /\ edges_in_window' =
          IF InCalibrationWindow THEN edges_in_window + 1 ELSE edges_in_window
    /\ UNCHANGED <<config_vars, now, pulse_intervals, rpm_history,
                   last_pulse_time, current_rpm, is_running, callback,
                   calc_thread, monitor_thread, cal, stall_forced, caller,
                   other_vars>>

\* Lines 256-259 of the second call.
Calibrate2EndWait ==
    /\ cal2.pc = "counting"
    /\ cal2.sleep = 0
    /\ callback' = "none"
    /\ cal2' = [cal2 EXCEPT !.pc = "restoring"]
    /\ UNCHANGED <<config_vars, now, pulse_intervals, rpm_history,
                   last_pulse_time, current_rpm, is_running, calc_thread,
                   monitor_thread, cal, edges_in_window, stall_forced,
                   caller, other_vars>>

\* Lines 260-272 of the second call.
Calibrate2Finish ==
    /\ cal2.pc = "restoring"
    /\ callback = "none"
    /\ callback' = "pulse"
    /\ LET r == CalculatedPpr(cal2.pulse_count, cal2.known_rpm,
                              now - cal2.start_time)
       IN  cal2' = [NoCalibration EXCEPT !.outcome = r.outcome,
                                        !.value = r.value,
                                        !.calls = cal2.calls]
    /\ UNCHANGED <<config_vars, now, pulse_intervals, rpm_history,
                   last_pulse_time, current_rpm, is_running, calc_thread,
                   monitor_thread, cal, edges_in_window, stall_forced,
                   caller, other_vars>>

Calibrate2 ==
    \/ \E known \in KnownRpms, duration \in 1..MaxDuration :
          Calibrate2Begin(known, duration)
    \/ Calibrate2Count
    \/ Calibration2Callback
    \/ Calibrate2EndWait
    \/ Calibrate2Finish

---------------------------------------------------------------------------
(* The reader's specification *)

Calibrate ==
    \/ \E known \in KnownRpms, duration \in 1..MaxDuration :
          CalibrateBegin(known, duration)
    \/ CalibrateCount
    \/ CalibrateEndWait
    \/ CalibrateInterrupt
    \/ CalibrateFinish

\* What happens once the reader has been started.
Running ==
    \/ Tick
    \/ PulseCallback
    \/ CalibrationCallback
    \/ EdgeLost
    \/ StopReading
    \/ CalcLoop
    \/ CalculateRpm
    \/ MonitorLoop
    \/ MonitorCheck
    \/ MonitorClear
    \/ Calibrate

Next == StartReading \/ Running

Spec == Init /\ [][Next]_vars

---------------------------------------------------------------------------
(* The reader with a caller that also calls stop_reading when the reader is *)
(* not running, and calibrate_encoder_ppr from a second thread.             *)

\* The clock of this reader stops MaxCallsTime ticks after construction.
MaxCallsTime == 3

InitCalls ==
    /\ \E c \in Configs : Constructed(c)
    /\ deadline = StartTime + MaxCallsTime
    /\ spacing = 0
    /\ rpm_filter = NoFilter
    /\ estimate = NoEstimate
    /\ motor = NewMotor
    /\ stats = NoStats

\* The calls of the reader's caller and the edges of the encoder.  The steps
\* of the two workers are left out: none of them reads or writes the
\* callback registration, a calibration's frame or the caller's record.
NextCalls ==
    \/ StartReading
    \/ Tick
    \/ PulseCallback
    \/ CalibrationCallback
    \/ EdgeLost
    \/ StopReading
    \/ StopAgain
    \/ Calibrate
    \/ Calibrate2

SpecCalls == InitCalls /\ [][NextCalls]_vars


---------------------------------------------------------------------------
(* A reader that has been running for a while.  Every state below is one    *)
(* the reader reaches from its construction: any sequence of accepted       *)
(* intervals is buffered by pulses that arrive with these spacings; a       *)
(* history is filled by estimator ticks between runs of equally spaced      *)
(* pulses, and the buffer is then replaced by 50 later pulses while the     *)
(* estimator sleeps; a buffer of fewer than 50 intervals comes with an      *)
(* empty history, the estimator not having run yet.  The last pulse has     *)
(* just arrived, or it arrived longer ago than stopped_timeout and the      *)
(* stall monitor has not looked since.                                      *)

\* The intervals (in ticks) _pulse_callback accepts, in increasing order.
AcceptedIntervals ==
    SelectSeq([i \in 1..(2 * TicksPerSecond) |-> i], IntervalAccepted)

\* The accepted intervals whose RPM, as the only interval of a window, is
\* within the range.
InRangeIntervals ==
    LET Ok(i) == InRange(RpmOfMedian(RatOfInt(i), encoder_ppr))
    IN  SelectSeq(AcceptedIntervals, Ok)

\* n entries that go round the sequence s, starting after its k-th entry.
Cycle(s, n, k) == [i \in 1..n |-> s[((i + k - 1) % Len(s)) + 1]]

\* Buffers of 50 intervals: 40 older ones that vary, then 10 equal ones,
\* of the longest or of the shortest accepted interval.
FullBuffers ==
    { Cycle(AcceptedIntervals, IntervalsMaxLen - 10, 0)
         \o Rep(Last(AcceptedIntervals), 10 - n)
         \o Rep(AcceptedIntervals[1], n) : n \in {0, 10} }

\* Shorter buffers: 9 equal intervals, 10 equal intervals after an older
\* one that differs, and one interval short of 50.
ShortBuffers ==
    { Rep(AcceptedIntervals[1], 9) }
    \cup { <<Last(AcceptedIntervals)>> \o Rep(AcceptedIntervals[1], 10) }
    \cup { Cycle(AcceptedIntervals, IntervalsMaxLen - 1, 1) }

\* A full history, of RPM values that vary.
LongHistories ==
    { [i \in 1..HistoryMaxLen |->
          RpmOfMedian(RatOfInt(Cycle(InRangeIntervals, HistoryMaxLen, 0)[i]),
                      encoder_ppr)] }

\* The least number of ticks that is longer than stopped_timeout.
StallTicks == (stopped_timeout[1] * TicksPerSecond) \div stopped_timeout[2] + 1

\* perf_counter() when the running reader is found: construction is long ago.
LongRunTime == StartTime + 5 * HistoryMaxLen

\* The arguments the running reader was constructed with.
RunningConfig == [ppr |-> 1, rpm_range |-> <<50, 120>>]

RunningInit ==
    /\ encoder_ppr = RunningConfig.ppr
    /\ min_rpm = RunningConfig.rpm_range[1]
    /\ max_rpm = RunningConfig.rpm_range[2]
    /\ now = LongRunTime
    /\ deadline = LongRunTime + MaxLongTime
    /\ spacing = 0
    /\ \/ /\ pulse_intervals \in FullBuffers
          /\ rpm_history \in LongHistories
          /\ current_rpm = Last(rpm_history)
          /\ last_pulse_time \in {now, now - StallTicks}
       \/ /\ pulse_intervals \in ShortBuffers
          /\ rpm_history = <<>>
          /\ current_rpm = Zero
          /\ last_pulse_time = now
    /\ is_running = TRUE
    /\ callback = "pulse"
    /\ calc_thread = [pc |-> "sleep", sleep |-> 0]
    /\ monitor_thread = [pc |-> "sleep", sleep |-> 0]
    /\ cal = [NoCalibration EXCEPT !.calls = MaxCalibrations - 1]
    /\ edges_in_window = 0
    /\ stall_forced = FALSE
    /\ cal2 = NoCalibration
    /\ caller = [stops |-> 0, outcome |-> "returned"]

InitLong ==
    /\ RunningInit
    /\ rpm_filter = NoFilter
    /\ estimate = NoEstimate
    /\ motor = NewMotor
    /\ stats = NoStats

SpecLong == InitLong /\ [][Running]_vars

---------------------------------------------------------------------------
(* The running reader with its four actors: the edges of the encoder, the   *)
(* estimator, the stall monitor, and a consumer that reads the speed and    *)
(* the statistics.                                                          *)

NextActors ==
    \/ Tick
    \/ PulseCallback
    \/ CalcLoop
    \/ CalculateRpm
    \/ MonitorLoop
    \/ MonitorCheck
    \/ MonitorClear
    \/ GetRpm
    \/ GetDetailedStats

SpecActors == InitLong /\ [][NextActors]_vars

---------------------------------------------------------------------------
(* The estimator's arithmetic on its own: windows of 10 intervals, given in *)
(* units of 1/UnitsPerSecond seconds so that an interval and its tenfold    *)
(* both lie between min_interval and max_interval = 1 s of the readers.     *)

\* The resolution of the intervals below.
UnitsPerSecond == 100

\* The base interval T ranges over 1..MaxBaseInterval units.
MaxBaseInterval == 8

BaseIntervals == { T \in 1..MaxBaseInterval : 10 * T <= UnitsPerSecond }

\* The readers the arithmetic is computed for.
EstimateConfigs ==
    { [ppr |-> 1, rpm_range |-> <<0, 6000>>],
      [ppr |-> 1000, rpm_range |-> <<0, 6000>>] }

\* 10 intervals equal to T, but for the one at position k (none when k = 0),
\* which is x.
WindowWith(T, k, x) == [i \in 1..10 |-> IF i = k THEN x ELSE T]

\* The windows: uniform ones, and ones with one interval ten times as long.
OutlierWindows ==
    { WindowWith(T, k, 10 * T) : T \in BaseIntervals, k \in 0..10 }

EstimateInit ==
    /\ \E c \in EstimateConfigs : Constructed(c)
    /\ deadline = StartTime
    /\ spacing = 0
    /\ rpm_filter = NoFilter
    /\ motor = NewMotor
    /\ stats = NoStats
    /\ \E w \in OutlierWindows, older \in {<<>>, <<3, 50>>} :
          estimate = [intervals |-> older \o w, window |-> <<>>,
                      rpm |-> Zero, pc |-> "ready"]

\* Lines 125-153 applied to the intervals.
Estimate ==
    /\ estimate.pc = "ready"
    /\ estimate' =
          [estimate EXCEPT
             !.window = FinalWindow(estimate.intervals),
             !.rpm = EstimatedRpm(estimate.intervals, encoder_ppr,
                                  UnitsPerSecond),
             !.pc = "done"]
    /\ UNCHANGED <<config_vars, reader_vars, rpm_filter, motor, stats>>

SpecEst == EstimateInit /\ [][Estimate]_vars

---------------------------------------------------------------------------
(* The estimator's arithmetic on windows of 5 to 10 intervals of up to four *)
(* lengths, from 10 ms to 0.5 s.                                            *)

\* The lengths of the intervals, in units of 1/UnitsPerSecond seconds.
IntervalLengths == <<1, 2, 5, 50>>

\* The window with n[i] intervals of the i-th length, shortest first.
WindowOf(n) ==
    Rep(IntervalLengths[1], n[1]) \o Rep(IntervalLengths[2], n[2])
       \o Rep(IntervalLengths[3], n[3]) \o Rep(IntervalLengths[4], n[4])

\* The sequence s from its end to its start.
Reversed(s) == [i \in 1..Len(s) |-> s[Len(s) + 1 - i]]

\* Every window of 5 to 10 intervals of these lengths, shortest first or
\* longest first.
IqrWindows ==
    LET counts == { n \in (0..10) \X (0..10) \X (0..10) \X (0..10) :
                       n[1] + n[2] + n[3] + n[4] \in 5..10 }
    IN  { WindowOf(n) : n \in counts }
           \cup { Reversed(WindowOf(n)) : n \in counts }

IqrInit ==
    /\ \E c \in EstimateConfigs : Constructed(c)
    /\ deadline = StartTime
    /\ spacing = 0
    /\ rpm_filter = NoFilter
    /\ motor = NewMotor
    /\ stats = NoStats
    /\ \E w \in IqrWindows :
          estimate = [intervals |-> w, window |-> <<>>,
                      rpm |-> Zero, pc |-> "ready"]

SpecIqr == IqrInit /\ [][Estimate]_vars

---------------------------------------------------------------------------
(* RPMFilter *)

\* At most MaxFilterCalls calls of filter are made on one RPMFilter.
MaxFilterCalls == 4

\* The arguments RPMFilter is constructed with: alpha and deadband.
Alphas == {<<1, 4>>, <<1, 2>>, <<1, 1>>}
Deadbands == {0, 5}

\* The raw RPM values filter is called with.
RawRpms == {Zero, RatOfInt(100), RatOfInt(103), RatOfInt(106)}

\* A filter that has no deadband step.
RawAsGiven(f, raw_rpm) == raw_rpm

\* Lines 317-318: the raw value after the deadband step.
EffectiveRaw(f, raw_rpm) ==
    IF RatLt(RatAbs(RatSub(raw_rpm, f.last_raw_rpm)), RatOfInt(f.deadband))
    THEN f.last_raw_rpm
    ELSE raw_rpm

\* Lines 321-324: self.filtered_rpm after the low-pass step on the raw
\* value e.
LowPass(f, e) ==
    IF f.filtered_rpm = Zero
    THEN e
    ELSE RatAdd(RatMul(f.alpha, e),
                RatMul(RatSub(<<1, 1>>, f.alpha), f.filtered_rpm))

\* RPMFilter.filter(raw_rpm): the filter after the call.
FilterResult(f, raw_rpm) ==
    [f EXCEPT !.filtered_rpm = LowPass(f, EffectiveRaw(f, raw_rpm)),
              !.last_raw_rpm = EffectiveRaw(f, raw_rpm),
              !.raw_rpm = raw_rpm,
              !.calls = f.calls + 1]

FilterInit ==
    /\ Constructed(RunningConfig)
    /\ deadline = StartTime
    /\ spacing = 0
    /\ estimate = NoEstimate
    /\ motor = NewMotor
    /\ stats = NoStats
    /\ \E alpha \in Alphas, deadband \in Deadbands :
          rpm_filter = NewFilter(alpha, deadband)

\* One call of filter.
FilterCall(raw_rpm) ==
    /\ rpm_filter.calls < MaxFilterCalls
    /\ rpm_filter' = FilterResult(rpm_filter, raw_rpm)
    /\ UNCHANGED <<config_vars, reader_vars, estimate, motor, stats>>

NextFilter == \E raw_rpm \in RawRpms : FilterCall(raw_rpm)

SpecFilter == FilterInit /\ [][NextFilter]_vars

---------------------------------------------------------------------------
(* Steps of the behaviours, as the properties below name them *)

\* The body of one estimator tick runs in this step.
CalcStep == calc_thread.pc = "sleep" /\ calc_thread'.pc = "loop"

\* The stall monitor forces the stall in this step (lines 180-182).
MonitorClearStep ==
    monitor_thread.pc = "locking" /\ monitor_thread'.pc = "loop"

\* calibrate_encoder_ppr is left in this step, by a return or an exception.
CalibrateEndStep == cal.pc # "idle" /\ cal'.pc = "idle"

\* calibrate_encoder_ppr returns or raises from its last statements.
CalibrateFinishStep == cal.pc = "restoring" /\ cal'.pc = "idle"

---------------------------------------------------------------------------
(* C1: the two bounded buffers *)

\* C1: the interval buffer never holds more than 50 entries and the RPM
\* history never more than 100; an append to a full buffer drops the oldest
\* entry and puts the new one last.
C1_BoundedBuffers ==
    /\ [](Len(pulse_intervals) <= 50 /\ Len(rpm_history) <= 100)
    /\ [][((/\ Len(pulse_intervals) = 50
             /\ last_pulse_time' # last_pulse_time
             /\ pulse_intervals' # pulse_intervals) =>
               /\ SubSeq(pulse_intervals', 1, 49) = Tail(pulse_intervals)
               /\ pulse_intervals'[50] = now - last_pulse_time)
           /\ ((Len(rpm_history) = 100 /\ rpm_history' # rpm_history) =>
               /\ SubSeq(rpm_history', 1, 99) = Tail(rpm_history)
               /\ rpm_history'[100] = current_rpm')]_vars

\* Both buffers are full and each has taken an entry since it was full.
C1_Witness ==
    /\ Len(pulse_intervals) = 50
    /\ pulse_intervals \notin FullBuffers
    /\ Len(rpm_history) = 100
    /\ rpm_history \notin LongHistories
    /\ rpm_history[1] # rpm_history[100]

---------------------------------------------------------------------------
(* C2 *)

\* C2: in every reachable state of the reader, under any interleaving of the
\* edge callback, the estimator and the stall monitor, current_rpm is exactly
\* 0 or lies within [min_rpm, max_rpm].
C2_RpmZeroOrInRange ==
    \/ current_rpm = Zero
    \/ /\ min_rpm * current_rpm[2] <= current_rpm[1]
       /\ current_rpm[1] <= max_rpm * current_rpm[2]

\* An estimator tick has ended, current_rpm is not 0 and the buffered
\* intervals give an RPM outside the range, which a tick rejects.
C2_Witness ==
    /\ calc_thread.pc = "loop"
    /\ current_rpm # Zero
    /\ Len(pulse_intervals) >= 3
    /\ ~InRange(ComputedRpm(pulse_intervals, encoder_ppr))

---------------------------------------------------------------------------
(* C3: a stalled motor *)

\* A pulse has been recorded and the last one is longer ago than 2.0 s.
Stalled ==
    /\ last_pulse_time > 0
    /\ (now - last_pulse_time) * stopped_timeout[2]
          > stopped_timeout[1] * TicksPerSecond

\* C3: once a pulse has been recorded and then none for longer than
\* stopped_timeout, the next tick of the stall monitor goes on to force the
\* stall; from the step in which it does until a later pulse arrives,
\* get_rpm() is 0 and the status is 'Stopped', whatever the estimator does
\* in between.
C3_StalledReadsZero ==
    /\ [](stall_forced => (get_rpm = Zero /\ StatsStatus = "Stopped"))
    /\ [][/\ ((/\ Stalled
                /\ monitor_thread.pc = "sleep"
                /\ monitor_thread'.pc # "sleep") =>
                  monitor_thread'.pc = "locking")
           /\ ((MonitorClearStep /\ Stalled) =>
                  /\ stall_forced'
                  /\ get_rpm' = Zero
                  /\ StatsStatus' = "Stopped")]_vars

\* The monitor has forced the stall of a motor that had a history of
\* non-zero readings, and the estimator has run a tick since.
C3_Witness ==
    /\ stall_forced
    /\ Len(rpm_history) >= 3
    /\ Last(rpm_history) # Zero
    /\ monitor_thread.pc = "sleep"
    /\ calc_thread.pc = "loop"
    /\ now > LongRunTime

---------------------------------------------------------------------------
(* C4: equally spaced pulses *)

\* The window of the estimator consists of equal intervals of T ticks.
UniformWindow(T) ==
    /\ Len(pulse_intervals) >= 3
    /\ LET n == Len(pulse_intervals)
       IN  \A i \in 1..n : (i > n - 10) => pulse_intervals[i] = T

\* C4: when the last 10 buffered intervals (all of them, when 3 to 9 are
\* buffered) equal T, and 60/(T*ppr) is within the range, current_rpm is
\* 60/(T*ppr) after the next estimator tick, whatever the older intervals.
C4_UniformWindowGivesExactRpm ==
    [][\A T \in 1..(2 * TicksPerSecond) :
          (/\ CalcStep
           /\ UniformWindow(T)
           /\ min_rpm * T * encoder_ppr <= 60 * TicksPerSecond
           /\ 60 * TicksPerSecond <= max_rpm * T * encoder_ppr) =>
             current_rpm' = Rat(60 * TicksPerSecond, T * encoder_ppr)]_vars

\* The estimator has just run on a buffer whose 10 last intervals are equal
\* and whose older intervals are not, and current_rpm is the RPM of the 10.
C4_Witness ==
    /\ calc_thread.pc = "loop"
    /\ Len(pulse_intervals) > 10
    /\ \E T \in 1..(2 * TicksPerSecond) :
          /\ UniformWindow(T)
          /\ \E i \in 1..(Len(pulse_intervals) - 10) : pulse_intervals[i] # T
          /\ current_rpm = Rat(60 * TicksPerSecond, T * encoder_ppr)
          /\ Last(rpm_history) = current_rpm
          /\ Median(pulse_intervals) # RatOfInt(T)

---------------------------------------------------------------------------
(* C5: one outlier in a window of 10 *)

\* The intervals the estimate was computed from end with 9 intervals of T
\* units and one of 10*T units.
OutlierAmong(T) ==
    \E k \in 1..10 :
       LastN(estimate.intervals, 10) = WindowWith(T, k, 10 * T)

\* The rational a differs from the rational b by at most 5% of b.
Within5Percent(a, b) ==
    RatLe(RatAbs(RatSub(a, b)), RatMul(<<5, 100>>, RatAbs(b)))

\* C5: for a window of 10 in which 9 intervals equal T and one, at any
\* position, equals 10*T, the computed RPM is within 5% of the RPM computed
\* for ten intervals equal to T, and the median is taken over the 9
\* intervals the interquartile filter keeps.
C5_OutlierDropped ==
    \A T \in BaseIntervals :
       (estimate.pc = "done" /\ OutlierAmong(T)) =>
          /\ Within5Percent(estimate.rpm,
                            EstimatedRpm(Rep(T, 10), encoder_ppr,
                                         UnitsPerSecond))
          /\ Within5Percent(estimate.rpm,
                            Rat(60 * UnitsPerSecond, T * encoder_ppr))
          /\ estimate.window = Rep(T, 9)

\* An estimate has been computed from a window whose outlier is not at its
\* end, after older intervals that the window leaves out.
C5_Witness ==
    /\ estimate.pc = "done"
    /\ Len(estimate.intervals) > 10
    /\ \E T \in BaseIntervals, k \in 2..9 :
          /\ T > 1
          /\ LastN(estimate.intervals, 10) = WindowWith(T, k, 10 * T)
          /\ estimate.rpm = Rat(60 * UnitsPerSecond, T * encoder_ppr)

---------------------------------------------------------------------------
(* C6: RPMFilter under a constant input *)

\* A call of filter is made in this step; its argument is
\* rpm_filter'.raw_rpm.
FilterStep == rpm_filter'.calls = rpm_filter.calls + 1

\* The value the calls filter(r) drive the smoothed value to: r when r is
\* at least deadband away from last_raw_rpm, else last_raw_rpm.
Target(f, r) ==
    LET d == RatAbs(RatSub(r, f.last_raw_rpm))
    IN  IF RatLe(RatOfInt(f.deadband), d) THEN r ELSE f.last_raw_rpm

\* |a - b| for rationals
Dist(a, b) == RatAbs(RatSub(a, b))

\* C6 as stated: once the smoothed value equals r, a call filter(r) leaves
\* it unchanged.
C6_FixedAtRaw ==
    [][(FilterStep /\ rpm_filter.filtered_rpm = rpm_filter'.raw_rpm) =>
          rpm_filter'.filtered_rpm = rpm_filter'.raw_rpm]_vars

\* C6, amended: a call filter(r) moves the smoothed value towards the value
\* e, which is r when r is at least deadband away from last_raw_rpm and is
\* last_raw_rpm otherwise: the distance to e shrinks by the factor 1 - alpha
\* or more, e is what later calls filter(r) move towards as well, and once
\* the smoothed value equals e a call filter(r) leaves it unchanged.
C6_DrivenToTarget ==
    [][FilterStep =>
          LET r == rpm_filter'.raw_rpm
              e == Target(rpm_filter, r)
          IN  /\ RatLe(Dist(rpm_filter'.filtered_rpm, e),
                       RatMul(RatSub(<<1, 1>>, rpm_filter.alpha),
                              Dist(rpm_filter.filtered_rpm, e)))
              /\ Target(rpm_filter', r) = e
              /\ (rpm_filter.filtered_rpm = e =>
                    rpm_filter'.filtered_rpm = e)]_vars

\* A filter with alpha < 1 and a deadband has been called with a value
\* inside the deadband: it moves towards last_raw_rpm, which is not the
\* value it was called with, and has not arrived yet.
C6_Witness ==
    /\ rpm_filter.calls >= 3
    /\ rpm_filter.alpha # <<1, 1>>
    /\ rpm_filter.raw_rpm # rpm_filter.last_raw_rpm
    /\ rpm_filter.filtered_rpm # rpm_filter.last_raw_rpm
    /\ rpm_filter.filtered_rpm # Zero

---------------------------------------------------------------------------
(* MotorController (motor_contro_agx.py).  Each method is a function from   *)
(* the controller before the call to the controller after it and the value  *)
(* returned: [m, ok].                                                       *)

DIRECTION_FORWARD == HIGH
DIRECTION_REVERSE == LOW

\* The speeds the methods are called with: below 0, within 0..100, above 100.
Speeds == {-10, 0, 30, 60, 80, 100, 150}

\* The directions set_direction is called with: the two levels and another
\* value.
Directions == {DIRECTION_FORWARD, DIRECTION_REVERSE, 2}

\* max(0, min(100, float(speed)))
Clamped(speed) == IF speed < 0 THEN 0 ELSE IF speed > 100 THEN 100 ELSE speed

\* _set_pwm_speed(speed): ChangeDutyCycle on the PWM object, which exists
\* once initialize() has succeeded.
SetPwmSpeed(m, speed) == IF m.is_initialized THEN [m EXCEPT !.duty = speed] ELSE m

\* set_direction(direction).  _current_direction is not assigned (the
\* assignment of line 103 is a comment), and neither is _current_speed when
\* the motor is stopped for the change of direction.
SetDirectionOf(m, direction) ==
    IF ~m.is_initialized THEN [m |-> m, ok |-> FALSE]
    ELSE IF direction \notin {DIRECTION_FORWARD, DIRECTION_REVERSE}
    THEN [m |-> m, ok |-> FALSE]
    ELSE LET stopped ==
                 IF direction # m.current_direction /\ m.current_speed > 0
                 THEN SetPwmSpeed(m, 0)
                 ELSE m
         IN  [m |-> [stopped EXCEPT !.dir_pin = direction], ok |-> TRUE]

\* set_speed(speed)
SetSpeedOf(m, speed) ==
    IF ~m.is_initialized THEN [m |-> m, ok |-> FALSE]
    ELSE IF Clamped(speed) # m.current_speed
    THEN [m |-> [SetPwmSpeed(m, Clamped(speed))
                    EXCEPT !.current_speed = Clamped(speed)],
          ok |-> TRUE]
    ELSE [m |-> m, ok |-> TRUE]

\* run_forward(speed) and run_reverse(speed):
\* set_direction(direction) and set_speed(speed)
RunOf(m, direction, speed) ==
    LET turned == SetDirectionOf(m, direction)
    IN  IF turned.ok THEN SetSpeedOf(turned.m, speed) ELSE turned

\* The controller after a call, with the call written down.
Called(r, op, arg) ==
    [r.m EXCEPT !.call = [op |-> op, arg |-> arg, result |-> r.ok]]

\* initialize(): True at once if initialized; else the pins are set up and
\* the PWM started at 0, or a GPIO call raises and False is returned.
Initialize ==
    /\ \E raised \in BOOLEAN :
          motor' =
             IF motor.is_initialized
             THEN Called([m |-> motor, ok |-> TRUE], "initialize", 0)
             ELSE IF raised
             THEN Called([m |-> motor, ok |-> FALSE], "initialize", 0)
             ELSE Called([m |-> [motor EXCEPT !.is_initialized = TRUE,
                                              !.dir_pin = motor.current_direction,
                                              !.duty = 0],
                          ok |-> TRUE], "initialize", 0)
    /\ UNCHANGED <<config_vars, reader_vars, rpm_filter, estimate, stats>>

SetDirection(direction) ==
    /\ motor' = Called(SetDirectionOf(motor, direction), "set_direction",
                       direction)
    /\ UNCHANGED <<config_vars, reader_vars, rpm_filter, estimate, stats>>

SetSpeed(speed) ==
    /\ motor' = Called(SetSpeedOf(motor, speed), "set_speed", speed)
    /\ UNCHANGED <<config_vars, reader_vars, rpm_filter, estimate, stats>>

\* stop(): set_speed(0)
Stop ==
    /\ motor' = Called(SetSpeedOf(motor, 0), "stop", 0)
    /\ UNCHANGED <<config_vars, reader_vars, rpm_filter, estimate, stats>>

RunForward(speed) ==
    /\ motor' = Called(RunOf(motor, DIRECTION_FORWARD, speed), "run_forward",
                       speed)
    /\ UNCHANGED <<config_vars, reader_vars, rpm_filter, estimate, stats>>

RunReverse(speed) ==
    /\ motor' = Called(RunOf(motor, DIRECTION_REVERSE, speed), "run_reverse",
                       speed)
    /\ UNCHANGED <<config_vars, reader_vars, rpm_filter, estimate, stats>>

MotorInit ==
    /\ Constructed(RunningConfig)
    /\ deadline = StartTime
    /\ spacing = 0
    /\ rpm_filter = NoFilter
    /\ estimate = NoEstimate
    /\ motor = NewMotor
    /\ stats = NoStats

NextMotor ==
    \/ Initialize
    \/ \E direction \in Directions : SetDirection(direction)
    \/ \E speed \in Speeds : SetSpeed(speed)
    \/ Stop
    \/ \E speed \in Speeds : RunForward(speed)
    \/ \E speed \in Speeds : RunReverse(speed)

SpecMotor == MotorInit /\ [][NextMotor]_vars

---------------------------------------------------------------------------
(* gradual_speed_change.  Its speeds are floats: a float is modelled as a   *)
(* whole number of units that has MantissaBits significant bits, and the    *)
(* sum or difference of two floats is rounded to the nearest such number.   *)

\* The significant bits of a float (53 for the doubles of Python).
MantissaBits == 5

\* The number of bits of x > 0
BitsOf(x) == CHOOSE k \in 1..30 : 2^(k - 1) <= x /\ x < 2^k

\* x rounded to MantissaBits significant bits, to the nearest and on a tie
\* to the one with the even mantissa.
RoundFloat(x) ==
    IF x < 2^MantissaBits THEN x
    ELSE LET q == 2^(BitsOf(x) - MantissaBits)
             lower == (x \div q) * q
         IN  IF 2 * (x - lower) < q THEN lower
             ELSE IF 2 * (x - lower) > q THEN lower + q
             ELSE IF (lower \div q) % 2 = 0 THEN lower ELSE lower + q

\* The speeds set_speed has been called with before gradual_speed_change
\* is, its targets (below 0, within 0..100, above 100) and its step sizes.
GradualStarts == {0, 20, 60, 100}
GradualTargets == {-10, 0, 50, 100, 150}
StepSizes == {1, 5, 30}

\* Lines 160-166: the call begins.  It returns False on a controller that is
\* not initialized.
GradualBegin(target_speed, step_size) ==
    /\ motor.gradual.pc \notin {"loop", "sleep"}
    /\ motor' =
          IF ~motor.is_initialized
          THEN [motor EXCEPT !.gradual =
                   [pc |-> "done", current |-> 0,
                    target_speed |-> target_speed, step_size |-> step_size,
                    result |-> FALSE]]
          ELSE [motor EXCEPT !.gradual =
                   [pc |-> "loop", current |-> motor.current_speed,
                    target_speed |-> Clamped(target_speed),
                    step_size |-> step_size, result |-> FALSE]]
    /\ UNCHANGED <<config_vars, reader_vars, rpm_filter, estimate, stats>>

\* Lines 168-178: the test of the loop and one pass of it up to its sleep,
\* or the set_speed(target_speed) after the loop.
GradualStep ==
    /\ motor.gradual.pc = "loop"
    /\ LET g == motor.gradual
           away == RoundFloat(Abs(g.current - g.target_speed))
           up == RoundFloat(g.current + g.step_size)
           down == RoundFloat(g.current - g.step_size)
           current == IF g.current < g.target_speed
                      THEN (IF up < g.target_speed THEN up
                            ELSE g.target_speed)
                      ELSE (IF down > g.target_speed THEN down
                            ELSE g.target_speed)
       IN  IF away > g.step_size
           THEN LET r == SetSpeedOf(motor, current)
                IN  motor' = [r.m EXCEPT
                                !.gradual.current = current,
                                !.gradual.pc = IF r.ok THEN "sleep" ELSE "done",
                                !.gradual.result = FALSE]
           ELSE LET r == SetSpeedOf(motor, g.target_speed)
                IN  motor' = [r.m EXCEPT !.gradual.pc = "done",
                                         !.gradual.result = r.ok]
    /\ UNCHANGED <<config_vars, reader_vars, rpm_filter, estimate, stats>>

\* Line 176: time.sleep(delay) ends.
GradualWake ==
    /\ motor.gradual.pc = "sleep"
    /\ motor' = [motor EXCEPT !.gradual.pc = "loop"]
    /\ UNCHANGED <<config_vars, reader_vars, rpm_filter, estimate, stats>>

\* The calls made on the controller: gradual_speed_change is called between
\* calls of initialize and set_speed, and no other call is made while it is
\* being executed.
NextGradual ==
    \/ motor.gradual.pc \notin {"loop", "sleep"} /\ Initialize
    \/ \E speed \in GradualStarts :
          motor.gradual.pc \notin {"loop", "sleep"} /\ SetSpeed(speed)
    \/ \E target_speed \in GradualTargets, step_size \in StepSizes :
          GradualBegin(target_speed, step_size)
    \/ GradualStep
    \/ GradualWake

\* The thread that called gradual_speed_change goes on executing it.
SpecGradual ==
    /\ MotorInit
    /\ [][NextGradual]_vars
    /\ WF_vars(GradualStep \/ GradualWake)

---------------------------------------------------------------------------
(* C16: run_forward and run_reverse *)

\* C16: after a call of run_forward(s) or run_reverse(s) that returned True,
\* the direction pin is at the level asked for and the duty cycle is s
\* clamped to 0..100.
C16_RunsAsAsked ==
    (motor.call.op \in {"run_forward", "run_reverse"} /\ motor.call.result) =>
        /\ motor.dir_pin =
              (IF motor.call.op = "run_forward" THEN HIGH ELSE LOW)
        /\ motor.duty = Clamped(motor.call.arg)

---------------------------------------------------------------------------
(* The reader constructed with arguments that describe no encoder: no       *)
(* pulses per revolution or a negative number of them, an empty or a        *)
(* negative speed range.                                                    *)

InvalidConfigs ==
    { [ppr |-> 0,  rpm_range |-> <<0, 120>>],
      [ppr |-> -1, rpm_range |-> <<0, 120>>],
      [ppr |-> 1,  rpm_range |-> <<120, 50>>],
      [ppr |-> 1,  rpm_range |-> <<60, 60>>],
      [ppr |-> 1,  rpm_range |-> <<-60, 120>>] }

\* The clock of this reader stops MaxConfigTime ticks after construction.
MaxConfigTime == 3

InitConfig ==
    /\ \E c \in InvalidConfigs : Constructed(c)
    /\ deadline = StartTime + MaxConfigTime
    /\ spacing = 0
    /\ rpm_filter = NoFilter
    /\ estimate = NoEstimate
    /\ motor = NewMotor
    /\ stats = NoStats

\* The reader is started, receives edges and is stopped; its workers' steps
\* are left out.
NextConfig ==
    \/ StartReading
    \/ Tick
    \/ PulseCallback
    \/ StopReading

SpecConfig == InitConfig /\ [][NextConfig]_vars

---------------------------------------------------------------------------
(* C15: the arguments of the constructor *)

\* C15: the constructor fails for encoder_ppr <= 0, min_rpm >= max_rpm or
\* min_rpm < 0, so that no reader with such arguments is ever started: a
\* reader that start_reading() has started has none of them.
C15_NoInvalidReaderStarted ==
    (is_running /\ caller.outcome = "returned") =>
        /\ encoder_ppr > 0
        /\ min_rpm >= 0
        /\ min_rpm < max_rpm

---------------------------------------------------------------------------
(* get_detailed_stats alone, called once on a reader found with some        *)
(* history.                                                                 *)

\* Histories of up to MaxShortHistory readings are all tried.
MaxShortHistory == 3

\* The arguments the reader that is asked for its statistics was constructed
\* with: 0.9 * max_rpm lies above low_speed_threshold with the one and below
\* it with the other.
StatsConfigs == {RunningConfig, [ppr |-> 1, rpm_range |-> <<50, 100>>]}

\* The readings of a history: the history holds those within the range.
StatsRpms == {RatOfInt(60), RatOfInt(95), RatOfInt(105), RatOfInt(120)}

\* The lengths of the longer histories: around the 5 readings of
\* _calculate_stability, around the 20 of recent_rpms, and a full deque.
LongLengths == {5, 19, 20, 21, HistoryMaxLen}

StatsHistories ==
    UNION { [1..n -> StatsRpms] : n \in 0..MaxShortHistory }
    \cup { [i \in 1..n |-> IF i = 1 THEN RatOfInt(120) ELSE RatOfInt(60)] :
              n \in LongLengths }
    \cup { [i \in 1..n |-> RatOfInt(60 + 30 * (i % 3))] : n \in LongLengths }

StatsInit ==
    /\ \E c \in StatsConfigs :
          /\ encoder_ppr = c.ppr
          /\ min_rpm = c.rpm_range[1]
          /\ max_rpm = c.rpm_range[2]
    /\ now = LongRunTime
    /\ deadline = LongRunTime
    /\ spacing = 0
    /\ pulse_intervals = <<>>
    /\ rpm_history \in StatsHistories
    /\ \A i \in 1..Len(rpm_history) : InRange(rpm_history[i])
    /\ current_rpm \in
          {Zero} \cup (IF rpm_history = <<>> THEN {} ELSE {Last(rpm_history)})
    /\ last_pulse_time = now
    /\ is_running = TRUE
    /\ callback = "pulse"
    /\ calc_thread = [pc |-> "sleep", sleep |-> 0]
    /\ monitor_thread = [pc |-> "sleep", sleep |-> 0]
    /\ cal = NoCalibration
    /\ edges_in_window = 0
    /\ stall_forced = FALSE
    /\ cal2 = NoCalibration
    /\ caller = [stops |-> 0, outcome |-> "returned"]
    /\ rpm_filter = NoFilter
    /\ estimate = NoEstimate
    /\ motor = NewMotor
    /\ stats = NoStats

SpecStats == StatsInit /\ [][GetDetailedStats]_vars

---------------------------------------------------------------------------
(* C14: the fields of get_detailed_stats *)

\* The keys of the full dictionary.
FullFields ==
    {"current_rpm", "avg_rpm", "median_rpm", "std_rpm", "min_rpm", "max_rpm",
     "samples", "pulse_frequency", "stability_percent", "status"}

\* The most recent 20 readings of the history, or all if there are fewer.
Last20 ==
    LET k == IF Len(rpm_history) < 20 THEN Len(rpm_history) ELSE 20
    IN  [i \in 1..k |-> rpm_history[Len(rpm_history) - k + i]]

\* C14: get_detailed_stats() never raises; on a history of fewer than 3
\* readings it returns exactly current_rpm, samples and status, on 3 or more
\* the full set of fields, computed over the most recent 20 readings, with
\* samples the lesser of the history's length and 20.
C14_StatsFields ==
    (stats.outcome # "none") =>
        /\ stats.outcome = "returned"
        /\ stats.value.current_rpm = current_rpm
        /\ IF Len(rpm_history) < 3
           THEN /\ DOMAIN stats.value = {"current_rpm", "samples", "status"}
                /\ stats.value.samples = Len(rpm_history)
           ELSE /\ DOMAIN stats.value = FullFields
                /\ stats.value.samples = Len(Last20)
                /\ stats.value.avg_rpm = Mean(Last20)
                /\ stats.value.median_rpm = MedianRpm(Last20)
                /\ \E i \in 1..Len(Last20) : stats.value.min_rpm = Last20[i]
                /\ \E i \in 1..Len(Last20) : stats.value.max_rpm = Last20[i]
                /\ \A i \in 1..Len(Last20) :
                      /\ RatLe(stats.value.min_rpm, Last20[i])
                      /\ RatLe(Last20[i], stats.value.max_rpm)

\* The statistics of a history of more than 20 readings, whose older
\* readings differ from the recent ones, have been returned.
C14_Witness ==
    /\ stats.outcome = "returned"
    /\ Len(rpm_history) > 20
    /\ stats.value.samples = 20
    /\ \E i \in 1..Len(rpm_history) :
          RatLt(stats.value.max_rpm, rpm_history[i])

---------------------------------------------------------------------------
(* The reader and the edges of the encoder alone: the reader is started and *)
(* edges arrive, at any distance from one another.                          *)

\* The clock of this reader stops MaxEdgeTime ticks after construction.
MaxEdgeTime == 6

InitEdges ==
    /\ \E c \in Configs : Constructed(c)
    /\ deadline = StartTime + MaxEdgeTime
    /\ spacing = 0
    /\ rpm_filter = NoFilter
    /\ estimate = NoEstimate
    /\ motor = NewMotor
    /\ stats = NoStats

NextEdges ==
    \/ StartReading
    \/ Tick
    \/ PulseCallback

SpecEdges == InitEdges /\ [][NextEdges]_vars

---------------------------------------------------------------------------
(* C18: the edge callback *)

\* An edge callback that changes the reader's state runs in this step.
EdgeStep ==
    \/ last_pulse_time' # last_pulse_time
    \/ pulse_intervals' # pulse_intervals

\* C18: every edge callback sets last_pulse_time to its timestamp, and
\* appends the interval since the previous edge exactly if there was a
\* previous edge (last_pulse_time > 0) and the interval is within
\* min_interval..max_interval or longer than max_interval but shorter than
\* stopped_timeout; otherwise the buffer is left as it is.
C18_EdgeCallback ==
    [][EdgeStep =>
          LET interval == Seconds(now - last_pulse_time)
              kept ==
                  /\ last_pulse_time > 0
                  /\ \/ /\ RatLe(min_interval, interval)
                        /\ RatLe(interval, max_interval)
                     \/ /\ RatLt(max_interval, interval)
                        /\ RatLt(interval, stopped_timeout)
              room ==
                  IF Len(pulse_intervals) = IntervalsMaxLen
                  THEN Tail(pulse_intervals)
                  ELSE pulse_intervals
          IN  /\ last_pulse_time' = now
              /\ pulse_intervals' =
                    IF kept THEN Append(room, now - last_pulse_time)
                    ELSE pulse_intervals]_vars

\* Edges have been recorded: one after an interval within
\* min_interval..max_interval, one after a longer interval.
C18_Witness ==
    /\ last_pulse_time = now
    /\ \E i \in 1..Len(pulse_intervals) :
          RatLe(Seconds(pulse_intervals[i]), max_interval)
    /\ \E i \in 1..Len(pulse_intervals) :
          RatLt(max_interval, Seconds(pulse_intervals[i]))

---------------------------------------------------------------------------
(* A motor that ran at a constant speed, stood still for longer than        *)
(* stopped_timeout and turns again at that speed: once edges come again,    *)
(* they come every `spacing` ticks.  The reader is neither stopped nor      *)
(* calibrated.  Time has no end here: the reader uses clock readings only   *)
(* by their differences (and last_pulse_time by its being positive), so a   *)
(* tick is taken as last_pulse_time lying one tick further back.            *)

\* The spacings at which an interval is within min_interval..max_interval
\* and its RPM within the range.
Spacings ==
    { t \in 1..StallTicks :
         /\ RatLe(min_interval, Seconds(t))
         /\ RatLe(Seconds(t), max_interval)
         /\ InRange(RpmOfMedian(RatOfInt(t), encoder_ppr)) }

\* 60 / (T * ppr) for the spacing T
SpacingRpm == RpmOfMedian(RatOfInt(spacing), encoder_ppr)

\* The longest the motor stands still.
MaxSilence == StallTicks + MonitorSleepTicks

RecoverInit ==
    /\ encoder_ppr = RunningConfig.ppr
    /\ min_rpm = RunningConfig.rpm_range[1]
    /\ max_rpm = RunningConfig.rpm_range[2]
    /\ deadline = LongRunTime
    /\ spacing \in Spacings
    /\ now = LongRunTime
    /\ pulse_intervals = Rep(spacing, IntervalsMaxLen)
    /\ rpm_history = Rep(SpacingRpm, HistoryMaxLen)
    /\ current_rpm = SpacingRpm
    /\ last_pulse_time = now - StallTicks
    /\ is_running = TRUE
    /\ callback = "pulse"
    /\ calc_thread = [pc |-> "sleep", sleep |-> 0]
    /\ monitor_thread = [pc |-> "sleep", sleep |-> 0]
    /\ cal = NoCalibration
    /\ edges_in_window = 0
    /\ stall_forced = FALSE
    /\ cal2 = NoCalibration
    /\ caller = [stops |-> 0, outcome |-> "returned"]
    /\ rpm_filter = NoFilter
    /\ estimate = NoEstimate
    /\ motor = NewMotor
    /\ stats = NoStats

\* One clock tick passes.  It does not while an edge is due, nor once the
\* motor has stood still for MaxSilence.
SpacedTick ==
    /\ now - last_pulse_time # spacing
    /\ now - last_pulse_time < MaxSilence
    /\ last_pulse_time' = last_pulse_time - 1
    /\ calc_thread' = SleepLess(calc_thread)
    /\ monitor_thread' = SleepLess(monitor_thread)
    /\ UNCHANGED <<config_vars, now, pulse_intervals, rpm_history,
                   current_rpm, is_running, callback, cal, edges_in_window,
                   stall_forced, caller_vars, other_vars>>

\* _pulse_callback for an edge of the turning motor: the first one after
\* the standstill, or one `spacing` ticks after the last.
SpacedEdge ==
    /\ now - last_pulse_time >= spacing
    /\ PulseCallback

\* The turning motor and the clock.
SpacedTime == SpacedTick \/ SpacedEdge

\* The next step of the thread running _calculate_rpm
CalcThread == CalcLoop \/ CalculateRpm

\* The next step of the thread running _monitor_stopped
MonitorThread == MonitorLoop \/ MonitorCheck \/ MonitorClear

NextRecover == SpacedTime \/ CalcThread \/ MonitorThread

\* The thread running _calculate_rpm can take a step: CalcThread is enabled.
CalcReady ==
    \/ calc_thread.pc = "loop"
    \/ calc_thread.pc = "sleep" /\ calc_thread.sleep = 0

\* The thread running _calculate_rpm gets to run: weak fairness of
\* CalcThread, whose steps are the ones that change calc_thread.pc.
CalcThreadRuns ==
    \/ []<>(~CalcReady)
    \/ []<><<calc_thread'.pc # calc_thread.pc>>_vars

\* Each of the two threads gets to run; time passes and the edges come.
SpecRecover ==
    /\ RecoverInit
    /\ [][NextRecover]_vars
    /\ WF_vars(SpacedTime)
    /\ CalcThreadRuns
    /\ WF_vars(MonitorThread)

---------------------------------------------------------------------------
(* The running reader that is stopped and not started again.  For the      *)
(* stopped reader time goes on without a bound: past the deadline the clock *)
(* is kept and last_pulse_time is moved back instead, up to a silence of    *)
(* MaxSilence ticks, beyond which no test of the reader tells one silence   *)
(* from another.                                                            *)

LateTick ==
    /\ ~is_running
    /\ now = deadline
    /\ last_pulse_time' =
          IF now - last_pulse_time < MaxSilence
          THEN last_pulse_time - 1
          ELSE last_pulse_time
    /\ calc_thread' = SleepLess(calc_thread)
    /\ monitor_thread' = SleepLess(monitor_thread)
    /\ UNCHANGED <<config_vars, now, pulse_intervals, rpm_history,
                   current_rpm, is_running, callback, cal, edges_in_window,
                   stall_forced, caller_vars, other_vars>>

\* Time passes.
Time == Tick \/ LateTick

NextStopped ==
    \/ Time
    \/ PulseCallback
    \/ StopReading
    \/ CalcThread
    \/ MonitorThread

\* Time passes, and each of the two threads is scheduled again and again.
SpecStopped ==
    /\ InitLong
    /\ [][NextStopped]_vars
    /\ WF_vars(Time)
    /\ CalcThreadRuns
    /\ WF_vars(MonitorThread)

---------------------------------------------------------------------------
(* C21: from Stalled to Running *)

\* C21: after a stall (current_rpm forced to 0, the buffer cleared)
\* current_rpm stays 0 until 3 intervals recorded after the stall are
\* buffered; and if the pulses come again, and keep coming at a spacing T
\* within min_interval..max_interval whose RPM is within the range,
\* current_rpm eventually is 60 / (T * ppr) again.
C21_StalledToRunning ==
    /\ [](Len(pulse_intervals) < 3 => current_rpm = Zero)
    /\ [][(current_rpm = Zero /\ current_rpm' # Zero) =>
             /\ Len(pulse_intervals) >= 3
             /\ \A i \in 1..Len(pulse_intervals) :
                   pulse_intervals[i] = spacing]_vars
    /\ stall_forced ~> (current_rpm = SpacingRpm)

\* The reader is running again after a stall: the buffer was cleared and
\* holds 3 or more new intervals, from which current_rpm was computed.
C21_Witness ==
    /\ Len(pulse_intervals) \in 3..(IntervalsMaxLen - 1)
    /\ current_rpm = SpacingRpm
    /\ ~stall_forced

---------------------------------------------------------------------------
(* C19: the range test of the estimator *)

\* C19: an estimator tick whose RPM is outside min_rpm..max_rpm leaves
\* current_rpm and the history as they are; a tick whose RPM is within the
\* range sets current_rpm to it and appends the same value to the history;
\* so every entry of the history is within the range.
C19_RangeTest ==
    /\ [](\A i \in 1..Len(rpm_history) :
             /\ min_rpm * rpm_history[i][2] <= rpm_history[i][1]
             /\ rpm_history[i][1] <= max_rpm * rpm_history[i][2])
    /\ [][(CalcStep /\ Len(pulse_intervals) >= 3) =>
             LET rpm == ComputedRpm(pulse_intervals, encoder_ppr)
                 room == IF Len(rpm_history) = HistoryMaxLen
                         THEN Tail(rpm_history)
                         ELSE rpm_history
             IN  IF min_rpm * rpm[2] <= rpm[1] /\ rpm[1] <= max_rpm * rpm[2]
                 THEN /\ current_rpm' = rpm
                      /\ rpm_history' = Append(room, rpm)
                 ELSE /\ current_rpm' = current_rpm
                      /\ rpm_history' = rpm_history]_vars

\* An estimator tick has accepted the RPM of the buffered intervals: it is
\* current_rpm and the newest entry of the history.
C19_Witness ==
    /\ calc_thread.pc = "loop"
    /\ Len(pulse_intervals) >= 3
    /\ rpm_history # <<>>
    /\ current_rpm = ComputedRpm(pulse_intervals, encoder_ppr)
    /\ Last(rpm_history) = current_rpm
    /\ Len(rpm_history) < HistoryMaxLen

---------------------------------------------------------------------------
(* C20: the estimator on fewer than 3 intervals *)

---------------------------------------------------------------------------
(* C17: the stall monitor's test and its clear *)

\* C17: the stall monitor forces current_rpm to 0 and clears the interval
\* buffer only in a state in which now - last_pulse_time > stopped_timeout
\* still holds: no edge callback comes between its test and its clear.
C17_ClearsOnlyWhenStalled == [][MonitorClearStep => Stalled]_vars

---------------------------------------------------------------------------
(* C12: the workers after stop_reading *)

\* The stall monitor makes the test of lines 175-179 in this step.
MonitorCheckStep == monitor_thread.pc = "sleep" /\ monitor_thread'.pc # "sleep"

\* C12: once stop_reading() has returned, no edge callback, no tick of the
\* estimator and no tick of the stall monitor reads or modifies the shared
\* state.
C12_QuietAfterStop ==
    [][(~is_running /\ caller.stops > 0) =>
          /\ ~CalcStep
          /\ ~MonitorCheckStep
          /\ ~MonitorClearStep
          /\ last_pulse_time' = last_pulse_time]_vars

---------------------------------------------------------------------------
(* C13: stop_reading called again *)

\* A call of stop_reading ends in this step.
StopStep == caller'.stops > caller.stops

\* C13: stop_reading never raises, whether the reader is running, was never
\* started or was stopped before.
C13_StopNeverRaises == [][StopStep => caller'.outcome = "returned"]_vars

---------------------------------------------------------------------------
(* C11: a second calibration *)

\* The second call of calibrate_encoder_ppr starts in this step.
Calibrate2BeginStep == cal2.pc = "idle" /\ cal2'.pc # "idle"

\* C11: a call of calibrate made while another calibration is in progress
\* fails at once, and changes neither the callback registered on the pin
\* nor the first calibration's frame.
C11_SecondCalibrationFailsFast ==
    [][Calibrate2BeginStep =>
          /\ cal2'.pc = "idle"
          /\ cal2'.outcome \notin {"none", "returned"}
          /\ callback' = callback
          /\ cal' = cal]_vars

---------------------------------------------------------------------------
(* C7, C8, C9, C10: calibrate_encoder_ppr *)

\* C7: calibrate returns pulse_count*60/(known_rpm*elapsed), where pulse_count
\* is exactly the number of rising edges that occurred during the calibration
\* window and elapsed is the measured length of that window.
C7_CountsEveryEdgeOfTheWindow ==
    [][(CalibrateFinishStep /\ cal'.outcome = "returned") =>
          /\ cal'.value = Rat(cal.pulse_count * 60 * TicksPerSecond,
                              cal.known_rpm * (now - cal.start_time))
          /\ cal.pulse_count = edges_in_window]_vars

\* C8: calibrate fails with a CalibrationError whenever known_rpm <= 0 or no
\* pulse was counted during the window.
C8_CalibrationError ==
    [][(CalibrateFinishStep /\ (cal.known_rpm <= 0 \/ cal.pulse_count = 0)) =>
          cal'.outcome = "CalibrationError"]_vars

\* C9: whenever a calibrate call ends, by returning a value or by failing at
\* any point after it swapped the callback, the callback registered on the
\* pin is again the normal pulse callback.
C9_CallbackRestored ==
    [][CalibrateEndStep => callback' = "pulse"]_vars

\* C10: from the moment calibrate swaps in the counting callback until it
\* restores the normal one, neither the estimator nor the stall monitor
\* modifies current_rpm or the interval buffer.
C10_WorkersExcluded ==
    [][(/\ cal.pc \in {"counting", "restoring"}
        /\ (CalcStep \/ MonitorClearStep)) =>
          /\ current_rpm' = current_rpm
          /\ pulse_intervals' = pulse_intervals]_vars


---------------------------------------------------------------------------
(* C22: one call of RPMFilter.filter *)

\* C22: a call filter(raw) replaces raw by last_raw_rpm when it is less than
\* deadband away from it; the first call of an instance sets the smoothed
\* value to that value, and every later call, whatever the smoothed value is
\* (0 included), sets it to alpha * raw + (1 - alpha) * the smoothed value
\* before; each call sets last_raw_rpm to the possibly replaced raw value.
C22_FirstCallThenSmoothing ==
    [][FilterStep =>
          LET f == rpm_filter
              e == EffectiveRaw(f, rpm_filter'.raw_rpm)
          IN  /\ rpm_filter'.last_raw_rpm = e
              /\ rpm_filter'.filtered_rpm =
                    IF f.calls = 0
                    THEN e
                    ELSE RatAdd(RatMul(f.alpha, e),
                                RatMul(RatSub(<<1, 1>>, f.alpha),
                                       f.filtered_rpm))]_vars

---------------------------------------------------------------------------
(* C23: stability_percent *)

\* C23: every get_detailed_stats() over 3 or more readings gives
\* stability_percent = 100 - 100 * stdev / mean clamped to [0, 100], the
\* coefficient of variation taken as 0 when the mean is 0: the number under
\* the root is min(1, variance / mean^2), which is 0 (stability 100) for
\* readings that are all equal, and it lies within [0, 1].
C23_StabilityFromSpread ==
    (stats.outcome = "returned" /\ Len(rpm_history) >= 3) =>
        LET mean == Mean(Last20)
            ratio == IF mean = Zero THEN Zero
                     ELSE RatDiv(Variance(Last20), RatMul(mean, mean))
            r == stats.value.stability_percent.hundred_less_hundred_roots_of
        IN  /\ r = IF RatLt(RatOfInt(1), ratio) THEN RatOfInt(1) ELSE ratio
            /\ RatLe(Zero, r)
            /\ RatLe(r, RatOfInt(1))
            /\ ((\A i \in 1..Len(Last20) : Last20[i] = Last20[1]) => r = Zero)

---------------------------------------------------------------------------
(* C24: the status of a full snapshot *)

\* C24: the status of a full get_detailed_stats() snapshot is decided by the
\* current_rpm of that snapshot alone, in this order: 'Stopped' if it is 0,
\* 'Low Speed' if it is below 100, 'High Speed' if it is above 0.9 * max_rpm,
\* 'Normal' otherwise; and that current_rpm is the reader's.
C24_StatusOfSnapshot ==
    (stats.outcome = "returned" /\ DOMAIN stats.value = FullFields) =>
        LET rpm == stats.value.current_rpm
        IN  /\ rpm = current_rpm
            /\ stats.value.status =
                  IF rpm = Zero THEN "Stopped"
                  ELSE IF RatLt(rpm, RatOfInt(100)) THEN "Low Speed"
                  ELSE IF RatLt(Rat(9 * max_rpm, 10), rpm) THEN "High Speed"
                  ELSE "Normal"

\* A full snapshot has been returned with a speed that is above
\* 0.9 * max_rpm and below 100: its status is 'Low Speed'.
C24_Witness ==
    /\ stats.outcome = "returned"
    /\ DOMAIN stats.value = FullFields
    /\ RatLt(Rat(9 * max_rpm, 10), stats.value.current_rpm)
    /\ RatLt(stats.value.current_rpm, RatOfInt(100))
    /\ stats.value.status = "Low Speed"


---------------------------------------------------------------------------
(* C25: the direction pin and the duty cycle *)

\* The controller as set_direction(direction) leaves it, which is also how
\* run_forward and run_reverse leave it before they call set_speed.
TurnedTo(direction) == SetDirectionOf(motor, direction).m

\* C25: on an initialized controller the level of the direction pin is never
\* changed while the duty cycle is above 0: a set_direction (called directly
\* or by run_forward or run_reverse) that changes the level of the pin has
\* set the duty cycle to 0 first.
C25_PinChangesAtDutyZero ==
    [][\A direction \in {DIRECTION_FORWARD, DIRECTION_REVERSE} :
          (/\ \/ /\ motor'.call.op = "set_direction"
                 /\ motor'.call.arg = direction
              \/ /\ motor'.call.op = "run_forward"
                 /\ direction = DIRECTION_FORWARD
              \/ /\ motor'.call.op = "run_reverse"
                 /\ direction = DIRECTION_REVERSE
           /\ motor'.dir_pin # motor.dir_pin) =>
              TurnedTo(direction).duty = 0]_vars

---------------------------------------------------------------------------
(* C26: gradual_speed_change *)

\* C26: on an initialized controller gradual_speed_change(target, step_size,
\* delay) terminates, whatever the current speed, the target and the step
\* size > 0 are, and when it returns True the speed is the target clamped to
\* [0, 100].
C26_GradualTerminates ==
    /\ (motor.gradual.pc = "loop") ~> (motor.gradual.pc = "done")
    /\ [][(/\ motor.gradual.pc = "loop"
           /\ motor'.gradual.pc = "done"
           /\ motor'.gradual.result) =>
              /\ motor'.current_speed = motor'.gradual.target_speed
              /\ motor'.current_speed \in 0..100]_vars


---------------------------------------------------------------------------
(* C27: the tracked speed and the duty cycle *)

\* C27: in every reachable state of an initialized controller the speed it
\* tracks, _current_speed, is the duty cycle last given to the PWM, so that
\* a set_speed(s) that is skipped because s is the tracked speed leaves the
\* PWM at the duty cycle s.
C27_TrackedSpeedIsDuty ==
    motor.is_initialized => motor.current_speed = motor.duty

---------------------------------------------------------------------------
(* C28: what each actor writes *)

\* The steps of the four actors.  A step of the clock is none of them.
EstimatorStep == calc_thread'.pc # calc_thread.pc
MonitorStep == monitor_thread'.pc # monitor_thread.pc
ConsumerStep == stats' # stats
EdgeCallbackStep ==
    /\ now' = now
    /\ ~EstimatorStep
    /\ ~MonitorStep
    /\ ~ConsumerStep
    /\ vars' # vars

\* C28: each actor writes only its own part of the shared state: an edge
\* callback only the interval buffer and last_pulse_time, an estimator tick
\* only current_rpm and the RPM history, the stall monitor only current_rpm
\* and the interval buffer, and get_rpm and get_detailed_stats nothing.
C28_Frames ==
    [][/\ EdgeCallbackStep => UNCHANGED <<current_rpm, rpm_history>>
       /\ EstimatorStep => UNCHANGED <<pulse_intervals, last_pulse_time>>
       /\ MonitorStep => UNCHANGED <<rpm_history, last_pulse_time>>
       /\ ConsumerStep => UNCHANGED <<pulse_intervals, last_pulse_time,
                                      current_rpm, rpm_history>>
       /\ (now' # now) => UNCHANGED <<pulse_intervals, last_pulse_time,
                                      current_rpm, rpm_history>>]_vars

\* The monitor has forced a stall on a reader with a history, an edge has
\* come after it, the estimator is past a tick and the consumer has read the
\* statistics.
C28_Witness ==
    /\ current_rpm = Zero
    /\ rpm_history # <<>>
    /\ Len(pulse_intervals) < 3
    /\ last_pulse_time = now
    /\ now > LongRunTime
    /\ calc_thread.pc = "loop"
    /\ monitor_thread.pc = "loop"
    /\ stats.outcome = "returned"

---------------------------------------------------------------------------
(* C29: the workers of a stopped reader *)

\* C29: after stop_reading(), with start_reading() not called again, both
\* workers leave their loops and terminate, given that they are scheduled
\* and time passes, and neither begins another pass of its loop: each makes
\* at most the one tick of the pass it is in.
C29_WorkersTerminate ==
    /\ (~is_running) ~>
          (calc_thread.pc = "done" /\ monitor_thread.pc = "done")
    /\ [][~is_running =>
             /\ (calc_thread'.pc = "sleep" => calc_thread.pc = "sleep")
             /\ (monitor_thread'.pc = "sleep" =>
                    monitor_thread.pc = "sleep")
             /\ (calc_thread.pc = "done" => calc_thread'.pc = "done")
             /\ (monitor_thread.pc = "done" =>
                    monitor_thread'.pc = "done")]_vars

\* Both workers of a reader that was stopped have terminated, the monitor
\* after it forced a stall.
C29_Witness ==
    /\ ~is_running
    /\ caller.stops = 1
    /\ calc_thread.pc = "done"
    /\ monitor_thread.pc = "done"
    /\ stall_forced

---------------------------------------------------------------------------
(* C30: the interquartile filter never empties the window *)

\* C30: for every window of 5 to 10 positive intervals the interquartile
\* filter keeps at least one interval, so the estimator does not fall back
\* to the unfiltered window: the median is taken over the filtered one.
C30_FilterKeepsSome ==
    (estimate.pc = "done" /\ Len(estimate.intervals) \in 5..10) =>
        /\ IqrFiltered(estimate.intervals) # <<>>
        /\ estimate.window = IqrFiltered(estimate.intervals)
        /\ estimate.rpm =
              RpmOfInterval(Median(IqrFiltered(estimate.intervals)),
                            encoder_ppr, UnitsPerSecond)

\* An estimate has been computed from a window of 5 intervals of which the
\* filter dropped one.
C30_Witness ==
    /\ estimate.pc = "done"
    /\ Len(estimate.intervals) = 5
    /\ Len(estimate.window) = 4

===========================================================================
